---- MODULE Spec2Model ----
(***************************************************************************)
(* Model of the photo organizer: the greedy face clusterer of the basic    *)
(* GUI (photo_manager_gui.py) and of the GPU variant                       *)
(* (photo_manager_gui_gpu.py), the person matcher, the file organizer      *)
(* (date resolution, destination path, collision-free names) and the       *)
(* duplicate finder.                                                       *)
(*                                                                         *)
(* Face embeddings are points of a one-dimensional integer grid whose unit *)
(* is 0.3, so that the Euclidean distance of face_recognition is the       *)
(* absolute difference and the default tolerance 0.6 is 2 units.           *)
(***************************************************************************)
EXTENDS Integers, Sequences, FiniteSets, TLC

\* ------------------------------------------------------------------ bounds
MaxFaces == 3          \* longest list of face observations given to the clusterer
MaxCoord == 3          \* embeddings are the grid points 0..MaxCoord
MaxInvocations == 2    \* how often the clusterer is invoked on the same input
MaxImageFaces == 2     \* most faces detected in one image
MaxTags == 2           \* most EXIF tags of one image
MaxFiles == 3          \* most source files one organizer run handles
MaxScanned == 5        \* most files one duplicate scan is given
MaxTicks == 1          \* how far the cache's clock runs, in steps of 31 days
MaxRuns == 2           \* how many times Start is pressed in one session of the GPU variant
MaxAssignments == 3    \* how many names are stored in one session
MaxAnalyzed == 3       \* most images one call of analyze_faces is given
MaxCalls == 2          \* how often analyze_faces is called in one session
MaxExtractions == 3    \* how often one image is handed to the extraction
MaxManaged == 4        \* most image files of a source folder whose duplicates are managed

\* ------------------------------------------------------- program constants
BasicTolerance == 2    \* tolerance=0.6 of get_unique_faces, in units of 0.3
MinTolerance == 1      \* the tolerance slider starts at 0.3
DefaultTolerance == 2  \* self.face_tolerance = 0.6
max_memory_items == 1  \* self.max_memory_items = 1000, scaled to the keys of the model
max_age_days == 30     \* clear_old_entries(max_age_days=30)
max_workers == 1       \* self.max_workers = min(8, os.cpu_count() or 4), on one CPU

VARIABLES
    variant,           \* "basic" (PhotoManager) or "gpu" (OptimizedFaceRecognitionOrganizer)
    all_faces,         \* the clusterer's input: the embedding of each observation, in input order
    face_tolerance,    \* self.face_tolerance of the GPU variant
    stop_processing,   \* self.stop_processing of the GPU variant
    unique_faces,      \* the clusterer's output list, one record per cluster
    used_indices,      \* the clusterer's local set used_indices
    ci,                \* the clusterer's outer loop index i (1-based)
    cpc,               \* where the clusterer is: "idle", "loop" or "done"
    invocation,        \* how many invocations of the clusterer have been entered
    first_result,      \* what the first invocation returned (<<>> before the second invocation)
    known_faces,       \* self.known_faces / self.face_encodings: name -> embedding, in insertion order
    image_faces,       \* the embeddings detected in the image organized last
    people_found,      \* the names the matcher returned for that image
    copied_to,         \* the folders that image was copied into
    copy_failed,       \* the folders for which shutil.copy2 raised
    routed,            \* whether an image has been organized
    PIL_AVAILABLE,     \* the module-level flag: Pillow could be imported
    group_by_face,     \* basic GUI option "Group by Face Recognition"
    group_by_name,     \* basic GUI option "Group by Similar Name"
    dest,              \* the destination tree: <<directory, filename>> -> the file stored there
    files_done,        \* how many source files the organizer has handled
    last,              \* the file handled last: its inputs, resolved date and destination
    files,             \* the duplicate finder's input: per path, the file's content and whether it can be read
    duplicate_groups,  \* what find_duplicate_files returned: lists of paths (positions in files)
    scanned,           \* whether find_duplicate_files has returned
    src_files,         \* a whole run's source files, in the order the run meets them
    src_present,       \* the source files (positions in src_files) that are still at their source path
    config,            \* what validation finds: source exists, is a directory, destination can be created
    run_pc,            \* where the run is: "start", "loop", "done"
    run_i,             \* the run's position in src_files (1-based)
    stats,             \* the run's counters
    shown,             \* what the run showed at its end: "nothing", "summary", "warning"
    summary_fields,    \* the counters the final summary displays
    exit_code,         \* the process exit code of the date organizer (-1: still running)
    failed,            \* the source files whose handling raised
    logged,            \* the source files for which an error was logged
    placed,            \* per source file, the destination paths it was stored at
    cache_saved,       \* whether the run called save_cache
    cache,             \* OptimizedFaceEncodingCache.cache: key -> encodings and timestamp
    memory_cache,      \* OptimizedFaceEncodingCache.memory_cache: key -> encodings
    file_id,           \* per image path, the file's current modification time and size
    now,               \* time.time(), in steps of 31 days
    ret,               \* the last call on the cache and what it returned
    latest,            \* per key, the encodings put last and not removed since
    phase,             \* per run of the GPU variant: "off", "extract", "grouped", "scheduled", "organize", "saving", "ended"
    tasks,             \* per run and image, the extraction task: "queued", "running", "done", "hung"
    collected,         \* per run, the images whose faces process_image_batch has taken over
    left,              \* per run, whether the as_completed loop has been left
    unique,            \* per run, whether find_unique_faces_optimized returned any face
    oi,                \* per run, the copy loop's position in the image list (0: not entered)
    outcome,           \* per run, what it showed last: "nothing", "warning", "summary"
    puts,              \* per run, the cache keys the run has put
    start_enabled,     \* start_button is in state NORMAL
    stop_enabled,      \* stop_button is in state NORMAL
    main_pc,           \* the GUI thread: "idle", or "clearing" inside clear_cache
    cache_file,        \* the cache's backing file: whether it exists, and the entries in it
    writing,           \* the threads that have the cache file open for writing or are removing it
    candidate,         \* a file of the source folder: its name (characters) and its size in bytes
    treated,           \* whether the variant took it as an image: "unchecked", "image", "other"
    io,                \* the cache object's file I/O: where it is, what load and save met, the warnings logged
    assignments,       \* the names stored in this session with their embeddings, in the order they were stored
    analysis,          \* analyze_faces of the basic GUI: its input, its position, self.unknown_faces, the files logged
    manager,           \* the duplicate manager: the window, the paths on disk, the rows of groups_listbox, the selection
    extraction         \* one image of the GPU variant: its faces, its cache entry, what the extractions returned

cfgVars == <<variant, face_tolerance>>
clusterVars == <<all_faces, stop_processing, unique_faces, used_indices, ci, cpc,
                 invocation, first_result>>
matchVars == <<known_faces, image_faces, people_found, copied_to, copy_failed, routed>>

fileVars == <<PIL_AVAILABLE, group_by_face, group_by_name, dest, files_done, last>>

dupVars == <<files, duplicate_groups, scanned>>

runVars == <<src_files, src_present, config, run_pc, run_i, stats, shown, summary_fields,
             exit_code, failed, logged, placed, cache_saved>>

cacheVars == <<cache, memory_cache, file_id, now, ret, latest>>

gpuVars == <<phase, tasks, collected, left, unique, oi, outcome, puts, start_enabled,
             stop_enabled, main_pc, cache_file, writing>>

extraVars == <<candidate, treated, io, assignments, analysis, manager, extraction>>

vars == <<cfgVars, clusterVars, matchVars, fileVars, dupVars, runVars, cacheVars, gpuVars,
          extraVars>>

outsideCluster == <<matchVars, fileVars, dupVars, runVars, cacheVars, gpuVars, extraVars>>
outsideMatch == <<clusterVars, fileVars, dupVars, runVars, cacheVars, gpuVars, extraVars>>
outsideFiles == <<clusterVars, image_faces, people_found, copied_to, copy_failed, routed,
                  dupVars, cacheVars, gpuVars, extraVars>>
outsideDup == <<clusterVars, matchVars, fileVars, runVars, cacheVars, gpuVars, extraVars>>
outsideCache == <<cfgVars, clusterVars, matchVars, fileVars, dupVars, runVars, gpuVars,
                  extraVars>>

\* The record of "no file handled yet".
NoDate == [year |-> 0, month |-> 0]
NoFile == [name |-> <<>>, exif |-> [readable |-> FALSE, tags |-> <<>>],
           mtime |-> [ok |-> FALSE, date |-> NoDate],
           date |-> NoDate, source |-> "none", dirs |-> {}, ok |-> FALSE]

Encodings == 0 .. MaxCoord
Tolerances == MinTolerance .. DefaultTolerance

\* The sequences over S of length at most n.
SeqUpTo(S, n) == UNION {[1 .. k -> S] : k \in 0 .. n}

\* The elements of a set of integers, in increasing order.
RECURSIVE SortedSeq(_)
SortedSeq(S) ==
    IF S = {} THEN <<>>
    ELSE LET m == CHOOSE x \in S : \A y \in S : x <= y
         IN <<m>> \o SortedSeq(S \ {m})

\* ---------------------------------------------------------- face distance
\* face_recognition.face_distance: the Euclidean norm of the difference.
face_distance(a, b) == IF a >= b THEN a - b ELSE b - a

\* face_recognition.compare_faces: distance <= tolerance.
compare_faces_strict(known, face, tolerance) == face_distance(known, face) < tolerance

compare_faces(known, face, tolerance) == face_distance(known, face) <= tolerance

\* ------------------------------------------------------------- clusterer
\* get_unique_faces, inner loop over j = i+1 .. len-1: every unused face that
\* compares equal to face i joins similar_files and is marked used.
RECURSIVE ScanSimilarKeepsUnused(_, _, _, _, _)
ScanSimilarKeepsUnused(faces, i, j, used, same_files) ==
    IF j > Len(faces) THEN [used |-> used, files |-> same_files]
    ELSE IF j \in used THEN ScanSimilarKeepsUnused(faces, i, j + 1, used, same_files)
    ELSE IF compare_faces(faces[i], faces[j], BasicTolerance)
         THEN ScanSimilarKeepsUnused(faces, i, j + 1, used, Append(same_files, j))
         ELSE ScanSimilarKeepsUnused(faces, i, j + 1, used, same_files)

RECURSIVE ScanSimilar(_, _, _, _, _)
ScanSimilar(faces, i, j, used, same_files) ==
    IF j > Len(faces) THEN [used |-> used, files |-> same_files]
    ELSE IF j \in used THEN ScanSimilar(faces, i, j + 1, used, same_files)
    ELSE IF compare_faces(faces[i], faces[j], BasicTolerance)
         THEN ScanSimilar(faces, i, j + 1, used \cup {j}, Append(same_files, j))
         ELSE ScanSimilar(faces, i, j + 1, used, same_files)

\* group_similar_faces_optimized: the indices matched by face i among the
\* remaining (later, unused) ones, by one vectorised distance computation.
MatchedIndicesChained(faces, i, used, tolerance) ==
    LET remaining == {j \in (i + 1) .. Len(faces) : j \notin used}
        RECURSIVE Chain(_, _)
        Chain(prev, js) ==
            IF js = {} THEN {}
            ELSE LET j == CHOOSE x \in js : \A y \in js : x <= y
                 IN IF face_distance(faces[j], faces[prev]) <= tolerance
                    THEN {j} \cup Chain(j, js \ {j})
                    ELSE Chain(prev, js \ {j})
    IN Chain(i, remaining)

MatchedIndices(faces, i, used, tolerance) ==
    LET remaining == {j \in (i + 1) .. Len(faces) : j \notin used}
    IN {j \in remaining : face_distance(faces[j], faces[i]) <= tolerance}

\* Entry of the clusterer: the early return on an empty input, else fresh
\* locals unique_faces = [] and used_indices = set().
ClustererEnterStale ==
    /\ cpc \in {"idle", "done"}
    /\ invocation < MaxInvocations
    /\ invocation' = invocation + 1
    /\ first_result' = IF cpc = "done" /\ invocation = 1
                       THEN unique_faces ELSE first_result
    /\ unique_faces' = <<>>
    /\ used_indices' = used_indices
    /\ ci' = 1
    /\ cpc' = IF all_faces = <<>> THEN "done" ELSE "loop"
    /\ UNCHANGED <<variant, all_faces, face_tolerance, stop_processing>>
    /\ UNCHANGED outsideCluster

ClustererEnter ==
    /\ cpc \in {"idle", "done"}
    /\ invocation < MaxInvocations
    /\ invocation' = invocation + 1
    /\ first_result' = IF cpc = "done" /\ invocation = 1
                       THEN unique_faces ELSE first_result
    /\ unique_faces' = <<>>
    /\ used_indices' = {}
    /\ ci' = 1
    /\ cpc' = IF all_faces = <<>> THEN "done" ELSE "loop"
    /\ UNCHANGED <<variant, all_faces, face_tolerance, stop_processing>>
    /\ UNCHANGED outsideCluster

\* One iteration of the outer loop of get_unique_faces.
GetUniqueFacesStep ==
    /\ variant = "basic"
    /\ cpc = "loop"
    /\ ci <= Len(all_faces)
    /\ IF ci \in used_indices
       THEN UNCHANGED <<unique_faces, used_indices>>
       ELSE LET r == ScanSimilar(all_faces, ci, ci + 1, used_indices, <<ci>>)
            IN /\ used_indices' = r.used \cup {ci}
               /\ unique_faces' = Append(unique_faces, [rep |-> ci, files |-> r.files])
    /\ ci' = ci + 1
    /\ UNCHANGED <<variant, all_faces, face_tolerance, stop_processing, cpc,
                   invocation, first_result>>
    /\ UNCHANGED outsideCluster

\* One iteration of the outer loop of group_similar_faces_optimized. The
\* cluster record keeps matched_indices next to the representative.
GroupSimilarFacesStep ==
    /\ variant = "gpu"
    /\ cpc = "loop"
    /\ ci <= Len(all_faces)
    /\ IF ci \in used_indices \/ stop_processing
       THEN UNCHANGED <<unique_faces, used_indices>>
       ELSE LET matched == MatchedIndices(all_faces, ci, used_indices \cup {ci},
                                          face_tolerance)
            IN /\ used_indices' = used_indices \cup {ci} \cup matched
               /\ unique_faces' = Append(unique_faces,
                      [rep |-> ci, files |-> <<ci>> \o SortedSeq(matched)])
    /\ ci' = ci + 1
    /\ UNCHANGED <<variant, all_faces, face_tolerance, stop_processing, cpc,
                   invocation, first_result>>
    /\ UNCHANGED outsideCluster

\* The loop is exhausted: return unique_faces.
ClustererReturn ==
    /\ cpc = "loop"
    /\ ci > Len(all_faces)
    /\ cpc' = "done"
    /\ UNCHANGED <<variant, all_faces, face_tolerance, stop_processing, unique_faces,
                   used_indices, ci, invocation, first_result>>
    /\ UNCHANGED outsideCluster

\* stop_organization, on the GUI thread while the worker is clustering.
StopOrganization ==
    /\ variant = "gpu"
    /\ cpc = "loop"
    /\ ~stop_processing
    /\ stop_processing' = TRUE
    /\ UNCHANGED <<variant, all_faces, face_tolerance, unique_faces, used_indices,
                   ci, cpc, invocation, first_result>>
    /\ UNCHANGED outsideCluster

ClusterIdle ==
    /\ all_faces = <<>>
    /\ stop_processing = FALSE
    /\ unique_faces = <<>>
    /\ used_indices = {}
    /\ ci = 1
    /\ cpc = "idle"
    /\ invocation = 0
    /\ first_result = <<>>

MatchIdle ==
    /\ known_faces = <<>>
    /\ image_faces = <<>>
    /\ people_found = {}
    /\ copied_to = {}
    /\ copy_failed = {}
    /\ routed = FALSE

NoStats == [total_scanned |-> 0, total_moved |-> 0, total_skipped |-> 0, exif_used |-> 0,
            fallback_used |-> 0, total_images |-> 0, organized_count |-> 0, per_person |-> [n \in {"ann", "bob"} |-> 0]]
ValidConfig == [source_exists |-> TRUE, source_is_dir |-> TRUE, dest_creatable |-> TRUE]

RunIdle ==
    /\ src_files = <<>>
    /\ src_present = {}
    /\ config = ValidConfig
    /\ run_pc = "start"
    /\ run_i = 1
    /\ stats = NoStats
    /\ shown = "nothing"
    /\ summary_fields = {}
    /\ exit_code = -1
    /\ failed = {}
    /\ logged = {}
    /\ placed = <<>>
    /\ cache_saved = FALSE

ImagePaths == {"p", "q"}
NoCall == [op |-> "none", path |-> "", hit |-> FALSE, encodings |-> <<>>]

CacheIdle ==
    /\ cache = <<>>
    /\ memory_cache = <<>>
    /\ file_id = [path \in ImagePaths |-> 1]
    /\ now = 0
    /\ ret = NoCall
    /\ latest = <<>>

Runs == 1 .. MaxRuns
NoCacheFile == [exists |-> FALSE, entries |-> <<>>]

GpuIdle ==
    /\ phase = [r \in Runs |-> "off"]
    /\ tasks = [r \in Runs |-> [f \in ImagePaths |-> "unsubmitted"]]
    /\ collected = [r \in Runs |-> {}]
    /\ left = [r \in Runs |-> FALSE]
    /\ unique = [r \in Runs |-> FALSE]
    /\ oi = [r \in Runs |-> 0]
    /\ outcome = [r \in Runs |-> "nothing"]
    /\ puts = [r \in Runs |-> {}]
    /\ start_enabled = TRUE
    /\ stop_enabled = FALSE
    /\ main_pc = "idle"
    /\ cache_file = NoCacheFile
    /\ writing = {}

NoCandidate == [name |-> <<>>, size |-> 0]

\* The cache object before load_cache is called.
NoIo == [pc |-> "new", corrupt |-> FALSE, load |-> "none", save |-> "none", warned |-> {},
         loaded |-> <<>>, before_save |-> <<>>, memory_before_save |-> <<>>]

\* PhotoManager.__init__: self.unknown_faces = [].
NoAnalysis == [pc |-> "idle", image_files |-> <<>>, i |-> 1, unknown_faces |-> <<>>,
               logged |-> {}, calls |-> 0]

\* No duplicate manager has been shown.
NoManager == [pc |-> "none", on_disk |-> {}, rows |-> <<>>, group_sel |-> 0, file_sel |-> 0,
              renamed |-> {}, files_to_organize |-> <<>>]

\* No image has been handed to the extraction.
NoExtraction == [faces |-> <<>>, scale |-> 1, in_cache |-> FALSE, cached |-> <<>>, populated |-> <<>>,
                 result |-> <<>>, hit |-> FALSE, calls |-> 0]

ExtraIdle ==
    /\ candidate = NoCandidate
    /\ treated = "unchecked"
    /\ io = NoIo
    /\ assignments = <<>>
    /\ analysis = NoAnalysis
    /\ manager = NoManager
    /\ extraction = NoExtraction

DupIdle ==
    /\ files = <<>>
    /\ duplicate_groups = <<>>
    /\ scanned = FALSE

FilesIdle ==
    /\ PIL_AVAILABLE = TRUE
    /\ group_by_face = FALSE
    /\ group_by_name = TRUE
    /\ dest = <<>>
    /\ files_done = 0
    /\ last = NoFile

ClusterInit ==
    /\ variant \in {"basic", "gpu"}
    /\ all_faces \in SeqUpTo(Encodings, MaxFaces)
    /\ face_tolerance \in (IF variant = "gpu" THEN Tolerances ELSE {BasicTolerance})
    /\ stop_processing \in (IF variant = "gpu" THEN BOOLEAN ELSE {FALSE})
    /\ unique_faces = <<>>
    /\ used_indices = {}
    /\ ci = 1
    /\ cpc = "idle"
    /\ invocation = 0
    /\ first_result = <<>>
    /\ MatchIdle
    /\ FilesIdle
    /\ DupIdle
    /\ RunIdle
    /\ CacheIdle
    /\ GpuIdle
    /\ ExtraIdle

ClusterNext ==
    \/ ClustererEnter
    \/ GetUniqueFacesStep
    \/ GroupSimilarFacesStep
    \/ ClustererReturn
    \/ StopOrganization

\* ------------------------------------------------- clusterer: properties
ClusterCount == Len(unique_faces)
MembersOf(k) == {unique_faces[k].files[m] : m \in 1 .. Len(unique_faces[k].files)}
Returned == cpc = "done"
ToleranceInEffect == IF variant = "basic" THEN BasicTolerance ELSE face_tolerance

\* The places (cluster, position) at which observation i occurs in the output.
PlacesOf(i) ==
    {<<k, m>> \in (1 .. ClusterCount) \X (1 .. MaxFaces + 1) :
        m <= Len(unique_faces[k].files) /\ unique_faces[k].files[m] = i}

EveryObservationInExactlyOneCluster ==
    \A i \in 1 .. Len(all_faces) : Cardinality(PlacesOf(i)) = 1

C2_MembersWithinToleranceOfRepresentative ==
    \A k \in 1 .. ClusterCount :
        LET r == unique_faces[k].rep
        IN /\ \A m \in MembersOf(k) :
                  face_distance(all_faces[r], all_faces[m]) <= ToleranceInEffect
           /\ \A j \in (r + 1) .. Len(all_faces) :
                  (j \in MembersOf(k)) <=>
                      /\ face_distance(all_faces[r], all_faces[j]) <= ToleranceInEffect
                      /\ \A e \in 1 .. (k - 1) : j \notin MembersOf(e)

\* A returned cluster with two members that are farther from each other than
\* the tolerance (both are within it of the representative).
C2_Witness ==
    /\ Returned
    /\ \E k \in 1 .. ClusterCount : \E a, b \in MembersOf(k) :
          /\ a # unique_faces[k].rep /\ b # unique_faces[k].rep
          /\ face_distance(all_faces[a], all_faces[b]) > ToleranceInEffect

TwoEmbeddingsBoundary ==
    Len(all_faces) = 2 =>
        LET d == face_distance(all_faces[1], all_faces[2])
        IN /\ d = ToleranceInEffect =>
                  /\ ClusterCount = 1
                  /\ unique_faces[1].files = <<1, 2>>
           /\ d > ToleranceInEffect =>
                  /\ ClusterCount = 2
                  /\ unique_faces[1].files = <<1>>
                  /\ unique_faces[2].files = <<2>>

RepresentativeIsFirstMember ==
    \A k \in 1 .. ClusterCount :
        /\ unique_faces[k].files[1] = unique_faces[k].rep
        /\ \A m \in 2 .. Len(unique_faces[k].files) :
               unique_faces[k].files[m] > unique_faces[k].rep

Names == {"ann", "bob"}
NoName == "None"
DateFolder == "date_folder"      \* the date folder itself, without a person subfolder

\* A dict assignment that keeps the embedding a name already has.
DictSetFirstWins(d, name, encoding) ==
    IF \E k \in 1 .. Len(d) : d[k].name = name
    THEN d
    ELSE Append(d, [name |-> name, encoding |-> encoding])

\* Python dict assignment d[name] = encoding: a new key is appended, an
\* existing key keeps its place and takes the new value.
DictSet(d, name, encoding) ==
    IF \E k \in 1 .. Len(d) : d[k].name = name
    THEN [k \in 1 .. Len(d) |->
             IF d[k].name = name THEN [name |-> name, encoding |-> encoding] ELSE d[k]]
    ELSE Append(d, [name |-> name, encoding |-> encoding])

NearestMatch(known, i, face, tolerance) ==
    LET within == {k \in i .. Len(known) :
                      face_distance(known[k].encoding, face) <= tolerance}
    IN IF within = {} THEN NoName
       ELSE known[CHOOSE k \in within : \A o \in within :
                \/ face_distance(known[k].encoding, face)
                       < face_distance(known[o].encoding, face)
                \/ /\ face_distance(known[k].encoding, face)
                          = face_distance(known[o].encoding, face)
                   /\ k <= o].name

\* The matcher's loop over the named people in the mapping's iteration order,
\* from position i on: the first one that compares equal wins.
RECURSIVE FirstMatch(_, _, _, _)
FirstMatch(known, i, face, tolerance) ==
    IF i > Len(known) THEN NoName
    ELSE IF compare_faces(known[i].encoding, face, tolerance) THEN known[i].name
    ELSE FirstMatch(known, i + 1, face, tolerance)

\* get_person_name_for_image: only the first face of the image is compared,
\* with compare_faces' default tolerance 0.6.
get_person_name_for_image(known, faces) ==
    IF known = <<>> THEN NoName
    ELSE IF faces = <<>> THEN NoName
    ELSE FirstMatch(known, 1, faces[1], BasicTolerance)

\* An identification that looks at the first face of the image only.
identify_person_in_first_face(known, faces, tolerance) ==
    IF known = <<>> THEN {}
    ELSE IF faces = <<>> THEN {}
    ELSE {FirstMatch(known, 1, faces[1], tolerance)} \ {NoName}

\* identify_person_in_image_optimized: every face of the image is compared.
identify_person_in_image_optimized(known, faces, tolerance) ==
    IF known = <<>> THEN {}
    ELSE IF faces = <<>> THEN {}
    ELSE {FirstMatch(known, 1, faces[k], tolerance) : k \in 1 .. Len(faces)} \ {NoName}

\* save_face_names / assign_names_to_faces: one named cluster representative.
\* Naming belongs to a new run; the locals of the organize call before it
\* (the image's faces and the names found for it) are gone by then.
AssignName(name, encoding) ==
    /\ known_faces' = DictSet(known_faces, name, encoding)
    /\ image_faces' = <<>>
    /\ people_found' = {}
    /\ copied_to' = {}
    /\ copy_failed' = {}
    /\ routed' = FALSE
    /\ UNCHANGED <<cfgVars, outsideMatch>>

\* organize_files, one image with face grouping on: the image goes to the
\* folder of the one name found, else to the date folder.
OrganizeFileByFace(faces, copy_ok) ==
    /\ variant = "basic"
    /\ LET person_name == get_person_name_for_image(known_faces, faces)
           dest_folder == IF person_name # NoName THEN person_name ELSE DateFolder
       IN /\ image_faces' = faces
          /\ people_found' = {person_name} \ {NoName}
          /\ copied_to' = IF copy_ok THEN {dest_folder} ELSE {}
          /\ copy_failed' = IF copy_ok THEN {} ELSE {dest_folder}
    /\ routed' = TRUE
    /\ UNCHANGED known_faces
    /\ UNCHANGED <<cfgVars, outsideMatch>>

\* organize_photos_optimized, one image: a copy into the folder of every
\* person found; a copy that raises is logged and the loop goes on.
OrganizePhotoOptimized(faces, failing) ==
    /\ variant = "gpu"
    /\ known_faces # <<>>
    /\ LET people_in_image ==
               identify_person_in_image_optimized(known_faces, faces, face_tolerance)
       IN /\ image_faces' = faces
          /\ people_found' = people_in_image
          /\ copied_to' = people_in_image \ failing
          /\ copy_failed' = people_in_image \cap failing
    /\ routed' = TRUE
    /\ UNCHANGED known_faces
    /\ UNCHANGED <<cfgVars, outsideMatch>>

MatchInit ==
    /\ variant \in {"basic", "gpu"}
    /\ face_tolerance \in (IF variant = "gpu" THEN Tolerances ELSE {BasicTolerance})
    /\ ClusterIdle
    /\ MatchIdle
    /\ FilesIdle
    /\ DupIdle
    /\ RunIdle
    /\ CacheIdle
    /\ GpuIdle
    /\ ExtraIdle

MatchNext ==
    \/ \E name \in Names, encoding \in Encodings : AssignName(name, encoding)
    \/ \E faces \in SeqUpTo(Encodings, MaxImageFaces), copy_ok \in BOOLEAN :
           OrganizeFileByFace(faces, copy_ok)
    \/ \E faces \in SeqUpTo(Encodings, MaxImageFaces), failing \in SUBSET Names :
           OrganizePhotoOptimized(faces, failing)

SpecMatch == MatchInit /\ [][MatchNext]_vars

\* ---------------------------------------------------- matcher: properties
Within(k, face) ==
    face_distance(known_faces[k].encoding, face) <= ToleranceInEffect

\* The name the contract gives a query: the first named person, in the
\* mapping's order, within the tolerance of it (NoName when there is none).
FirstWithinTolerance(face) ==
    IF \E k \in 1 .. Len(known_faces) : Within(k, face)
    THEN known_faces[CHOOSE k \in 1 .. Len(known_faces) :
             Within(k, face) /\ \A o \in 1 .. (k - 1) : ~Within(o, face)].name
    ELSE NoName

\* The faces of the last image that were given to the matcher.
QueriedFaces ==
    IF variant = "basic"
    THEN (IF image_faces = <<>> THEN {} ELSE {image_faces[1]})
    ELSE {image_faces[k] : k \in 1 .. Len(image_faces)}

\* C5: for every query the matcher answers with the first named person, in
\* registration order, whose reference is within the tolerance, also when a
\* later one is nearer, and with no name when none is within the tolerance or
\* nobody is named.
C5_MatcherReturnsFirstWithinTolerance ==
    routed =>
        /\ people_found = {FirstWithinTolerance(q) : q \in QueriedFaces} \ {NoName}
        /\ known_faces = <<>> => people_found = {}

\* A one-face image within the tolerance of two named people, the second one
\* strictly nearer, answered with the first.
C5_Witness ==
    /\ routed /\ Len(image_faces) = 1 /\ Len(known_faces) = 2
    /\ Within(1, image_faces[1]) /\ Within(2, image_faces[1])
    /\ face_distance(known_faces[2].encoding, image_faces[1])
           < face_distance(known_faces[1].encoding, image_faces[1])
    /\ people_found = {known_faces[1].name}

\* C6 as stated: an organized image is placed in the folder of every named
\* person that the matcher finds for any of its faces (copies that raise set
\* aside).
C6_RoutedByUnionOfAllFaces ==
    (routed /\ copy_failed = {}) =>
        \A k \in 1 .. Len(image_faces) :
            FirstWithinTolerance(image_faces[k]) # NoName =>
                FirstWithinTolerance(image_faces[k]) \in copied_to

\* ---------------------------------------------------------- date and path
Root == "root"
Sep == "/"
Digits == <<"0", "1", "2", "3", "4", "5", "6", "7", "8", "9">>

\* str(n) of a natural number, one token per decimal digit.
RECURSIVE Decimal(_)
Decimal(n) == IF n < 10 THEN <<Digits[n + 1]>>
              ELSE Decimal(n \div 10) \o <<Digits[(n % 10) + 1]>>

\* f"{n:02d}"
Unpadded(n) == Decimal(n)

ZeroPad2(n) == IF n < 10 THEN <<"0">> \o Decimal(n) ELSE Decimal(n)

\* MONTH_NAMES of photo_organizer.py.
MONTH_NAMES ==
    <<"January", "February", "March", "April", "May", "June", "July", "August",
      "September", "October", "November", "December">>

\* strftime('%B'), in the C locale the interpreter starts with.
strftime_B(month) ==
    <<"January", "February", "March", "April", "May", "June", "July", "August",
      "September", "October", "November", "December">>[month]

\* create_destination_path: root/YYYY/MM-MonthName.
create_destination_path(date_obj, destination_root) ==
    LET year == Decimal(date_obj.year)
        month_folder == ZeroPad2(date_obj.month) \o <<"-", MONTH_NAMES[date_obj.month]>>
    IN <<destination_root, Sep>> \o year \o <<Sep>> \o month_folder

\* create_date_folder_structure of the basic GUI.
create_date_folder_structure(date_obj, base_dest) ==
    LET year == Decimal(date_obj.year)
        month == ZeroPad2(date_obj.month) \o <<"-", strftime_B(date_obj.month)>>
    IN <<base_dest, Sep>> \o year \o <<Sep>> \o month

\* EXIF as Pillow hands it over: whether opening the image and reading its
\* EXIF succeeds, and the tags in iteration order. A value is a well-formed
\* 'YYYY:MM:DD HH:MM:SS' string ("date"), another string ("malformed",
\* strptime raises ValueError) or no string at all ("nonstring", TypeError).
TagNames == {"DateTimeOriginal", "DateTimeDigitized", "Model"}
ValueKinds == {"date", "malformed", "nonstring"}
CliDateTags == {"DateTime", "DateTimeOriginal", "DateTimeDigitized"}
BasicDateTags == {"DateTime", "DateTimeOriginal"}

\* The date written in a well-formed value of each tag.
DateInTag(tag) ==
    IF tag = "DateTimeOriginal" THEN [year |-> 2024, month |-> 7]
    ELSE IF tag = "DateTimeDigitized" THEN [year |-> 2024, month |-> 8]
    ELSE [year |-> 2020, month |-> 2]

NowDate == [year |-> 2026, month |-> 11]
Years == {1999, 2024}
AllDates == [year : Years, month : 1 .. 12]

ExifTagLists ==
    {t \in SeqUpTo([tag : TagNames, kind : ValueKinds], MaxTags) :
        \A a, b \in 1 .. Len(t) : a # b => t[a].tag # t[b].tag}
ExifCases ==
    {[readable |-> FALSE, tags |-> <<>>]} \cup [readable : {TRUE}, tags : ExifTagLists]
MTimes == {[ok |-> FALSE, date |-> NoDate]} \cup [ok : {TRUE}, date : AllDates]

\* The loop over exif_data.items(): the first date tag whose value parses is
\* returned; ValueError goes on to the next tag; any other exception leaves
\* the loop and is caught by the enclosing handler.
RECURSIVE ScanExifTagsNoContinue(_, _, _)
ScanExifTagsNoContinue(tags, k, accepted) ==
    IF k > Len(tags) THEN [outcome |-> "none", date |-> NoDate]
    ELSE IF tags[k].tag \in accepted
         THEN IF tags[k].kind = "date"
              THEN [outcome |-> "date", date |-> DateInTag(tags[k].tag)]
              ELSE [outcome |-> "raised", date |-> NoDate]
         ELSE ScanExifTagsNoContinue(tags, k + 1, accepted)

RECURSIVE ScanExifTags(_, _, _)
ScanExifTags(tags, k, accepted) ==
    IF k > Len(tags) THEN [outcome |-> "none", date |-> NoDate]
    ELSE IF tags[k].tag \in accepted
         THEN IF tags[k].kind = "date"
              THEN [outcome |-> "date", date |-> DateInTag(tags[k].tag)]
              ELSE IF tags[k].kind = "malformed"
                   THEN ScanExifTags(tags, k + 1, accepted)
                   ELSE [outcome |-> "raised", date |-> NoDate]
         ELSE ScanExifTags(tags, k + 1, accepted)

\* extract_date_taken: the date, or NoDate for None.
extract_date_taken(pil, exif) ==
    IF ~pil THEN NoDate
    ELSE IF ~exif.readable THEN NoDate
    ELSE ScanExifTags(exif.tags, 1, CliDateTags).date

\* get_fallback_date: the modification time, else the current time.
get_fallback_date(mtime) ==
    IF mtime.ok THEN [date |-> mtime.date, source |-> "mtime"]
    ELSE [date |-> NowDate, source |-> "now"]

\* organize_photos lines 234-243: EXIF date if there is one, else fallback.
ResolveDateCli(pil, exif, mtime) ==
    LET date_taken == extract_date_taken(pil, exif)
    IN IF date_taken # NoDate THEN [date |-> date_taken, source |-> "exif"]
       ELSE get_fallback_date(mtime)

\* get_image_date of the basic GUI.
get_image_date(pil, exif, mtime) ==
    LET r == IF pil /\ exif.readable
             THEN ScanExifTags(exif.tags, 1, BasicDateTags)
             ELSE [outcome |-> "none", date |-> NoDate]
    IN IF r.outcome = "date" THEN [date |-> r.date, source |-> "exif"]
       ELSE IF mtime.ok THEN [date |-> mtime.date, source |-> "mtime"]
       ELSE [date |-> NowDate, source |-> "now"]

\* organize_photos, lines 232-246: the date of one image and its directory.
ResolveAndRoutePhoto ==
    /\ variant = "cli"
    /\ files_done = 0
    /\ LET r == ResolveDateCli(PIL_AVAILABLE, last.exif, last.mtime)
       IN last' = [last EXCEPT !.date = r.date, !.source = r.source,
                               !.dirs = {create_destination_path(r.date, Root)}]
    /\ files_done' = 1
    /\ UNCHANGED <<PIL_AVAILABLE, group_by_face, group_by_name, dest, known_faces>>
    /\ UNCHANGED <<cfgVars, outsideFiles>>

\* organize_files, lines 338-342: the date of one image and its date folder.
ResolveAndRouteFile ==
    /\ variant = "basic"
    /\ files_done = 0
    /\ LET r == get_image_date(PIL_AVAILABLE, last.exif, last.mtime)
       IN last' = [last EXCEPT !.date = r.date, !.source = r.source,
                               !.dirs = {create_date_folder_structure(r.date, Root)}]
    /\ files_done' = 1
    /\ UNCHANGED <<PIL_AVAILABLE, group_by_face, group_by_name, dest, known_faces>>
    /\ UNCHANGED <<cfgVars, outsideFiles>>

DateInit ==
    /\ variant \in {"cli", "basic"}
    /\ face_tolerance = DefaultTolerance
    /\ ClusterIdle
    /\ MatchIdle
    /\ PIL_AVAILABLE \in BOOLEAN
    /\ group_by_face = FALSE
    /\ group_by_name = FALSE
    /\ dest = <<>>
    /\ files_done = 0
    /\ last \in {[NoFile EXCEPT !.exif = e, !.mtime = m] : e \in ExifCases, m \in MTimes}
    /\ DupIdle
    /\ RunIdle
    /\ CacheIdle
    /\ GpuIdle
    /\ ExtraIdle

DateNext ==
    /\ \/ ResolveAndRoutePhoto
       \/ ResolveAndRouteFile
    /\ UNCHANGED runVars

SpecDate == DateInit /\ [][DateNext]_vars

\* ------------------------------------------------- date and path: properties
Handled == files_done > 0
DateTagsInEffect == IF variant = "cli" THEN CliDateTags ELSE BasicDateTags

\* Position k of the EXIF tags holds the capture time the variant reads: a
\* date tag with a well-formed value, with no read error before it (an earlier
\* date tag may only have been a malformed string).
CaptureTimeAt(k) ==
    /\ PIL_AVAILABLE /\ last.exif.readable
    /\ k \in 1 .. Len(last.exif.tags)
    /\ last.exif.tags[k].tag \in DateTagsInEffect
    /\ last.exif.tags[k].kind = "date"
    /\ \A j \in 1 .. (k - 1) :
           last.exif.tags[j].tag \in DateTagsInEffect =>
               last.exif.tags[j].kind = "malformed"

CaptureTimeUsable == \E k \in 1 .. Len(last.exif.tags) : CaptureTimeAt(k)

DateFolderOf(date) ==
    IF variant = "cli" THEN create_destination_path(date, Root)
    ELSE create_date_folder_structure(date, Root)

FullEnglishMonthName ==
    [m \in 1 .. 12 |->
        CASE m = 1 -> "January" [] m = 2 -> "February" [] m = 3 -> "March"
          [] m = 4 -> "April" [] m = 5 -> "May" [] m = 6 -> "June"
          [] m = 7 -> "July" [] m = 8 -> "August" [] m = 9 -> "September"
          [] m = 10 -> "October" [] m = 11 -> "November" [] m = 12 -> "December"]

DigitValue(c) == CHOOSE v \in 0 .. 9 : Digits[v + 1] = c
IsDigit(c) == \E v \in 0 .. 9 : Digits[v + 1] = c

RECURSIVE NumberRead(_)
NumberRead(ds) ==
    IF ds = <<>> THEN 0
    ELSE 10 * NumberRead(SubSeq(ds, 1, Len(ds) - 1)) + DigitValue(ds[Len(ds)])

\* dir reads root/YYYY/MM-MonthName for the date: four year digits, two month
\* digits and the full English month name.
IsDateFolder(dir, date) ==
    /\ Len(dir) = 11
    /\ dir[1] = Root /\ dir[2] = Sep /\ dir[7] = Sep /\ dir[10] = "-"
    /\ \A p \in {3, 4, 5, 6, 8, 9} : IsDigit(dir[p])
    /\ NumberRead(SubSeq(dir, 3, 6)) = date.year
    /\ NumberRead(SubSeq(dir, 8, 9)) = date.month
    /\ dir[11] = FullEnglishMonthName[date.month]

\* C9: the destination directory of a date is root/YYYY/MM-MonthName, MM the
\* month number zero-padded to two digits and MonthName the full English
\* month name.
C9_DateFolderLayout ==
    Handled => \A dir \in last.dirs : IsDateFolder(dir, last.date)

\* 2024-07 gives root/2024/07-July.
C9_Witness ==
    /\ Handled /\ last.date = [year |-> 2024, month |-> 7]
    /\ last.dirs = {<<"root", "/", "2", "0", "2", "4", "/", "0", "7", "-", "July">>}

\* ----------------------------------------------------------- file organizer
JpgExt == ".jpg"
Filenames == {<<"img", JpgExt>>, <<"img", "_", "1", JpgExt>>}

\* os.path.exists(os.path.join(dir, filename)) in the destination tree d.
Exists(d, dir, filename) == <<dir, filename>> \in DOMAIN d

\* f"{name}_{counter}{ext}" after name, ext = os.path.splitext(filename).
WithCounter(filename, counter) ==
    LET name == SubSeq(filename, 1, Len(filename) - 1)
        ext == filename[Len(filename)]
    IN name \o <<"_">> \o Decimal(counter) \o <<ext>>

\* get_unique_filename: the loop "while True" from the given counter on.
RECURSIVE UniqueFromCounter(_, _, _, _)
UniqueFromCounter(d, dir, filename, counter) ==
    LET new_filename == WithCounter(filename, counter)
    IN IF ~Exists(d, dir, new_filename) THEN new_filename
       ELSE UniqueFromCounter(d, dir, filename, counter + 1)

\* A renaming that takes name_1 without looking whether it is free.
get_unique_filename_unchecked(d, dir, filename) ==
    IF ~Exists(d, dir, filename) THEN filename ELSE WithCounter(filename, 1)

\* get_unique_filename of photo_organizer.py and of the basic GUI.
get_unique_filename(d, dir, filename) ==
    IF ~Exists(d, dir, filename) THEN filename
    ELSE UniqueFromCounter(d, dir, filename, 1)

\* organize_photos_optimized, "Handle duplicates": while the path exists, the
\* next numbered name is tried.
RECURSIVE HandleDuplicates(_, _, _, _, _)
HandleDuplicates(d, dir, filename, dest_name, counter) ==
    IF ~Exists(d, dir, dest_name) THEN dest_name
    ELSE HandleDuplicates(d, dir, filename, WithCounter(filename, counter), counter + 1)

\* extract_base_name on the file names of the model: a trailing "_<digits>"
\* is removed from the stem (pattern [_-]\d+$); a stem that would become too
\* short is kept whole.
extract_base_name(filename) ==
    LET stem == SubSeq(filename, 1, Len(filename) - 1)
        n == Len(stem)
        base == IF n >= 2 /\ stem[n - 1] = "_" /\ stem[n] \in {Digits[v] : v \in 1 .. 10}
                THEN SubSeq(stem, 1, n - 2) ELSE stem
    IN IF base = <<>> THEN stem ELSE base

\* The file written by shutil.move / shutil.copy2.
Stored(id, filename) == [id |-> id, name |-> filename]

\* organize_photos, one file of the walk (lines 223-260): date, directory,
\* free name, move. ok = FALSE is makedirs or move raising: logged, skipped.
OrganizePhoto(filename, exif, mtime, ok) ==
    /\ variant = "cli"
    /\ files_done < MaxFiles
    /\ LET r == ResolveDateCli(PIL_AVAILABLE, exif, mtime)
           dest_dir == create_destination_path(r.date, Root)
           unique_filename == get_unique_filename(dest, dest_dir, filename)
       IN /\ dest' = IF ok
                     THEN (<<dest_dir, unique_filename>> :> Stored(files_done + 1, filename))
                              @@ dest
                     ELSE dest
          /\ last' = [name |-> filename, exif |-> exif, mtime |-> mtime, date |-> r.date,
                      source |-> r.source, dirs |-> {dest_dir}, ok |-> ok]
    /\ files_done' = files_done + 1
    /\ UNCHANGED <<PIL_AVAILABLE, group_by_face, group_by_name, known_faces>>
    /\ UNCHANGED <<cfgVars, outsideFiles>>

\* organize_files, one file (lines 333-378): date folder, person or base-name
\* subfolder, free name, copy. ok = FALSE is any step raising: logged.
OrganizeFile(filename, exif, mtime, faces, ok) ==
    /\ variant = "basic"
    /\ files_done < MaxFiles
    /\ LET r == get_image_date(PIL_AVAILABLE, exif, mtime)
           date_folder == create_date_folder_structure(r.date, Root)
           person_name == get_person_name_for_image(known_faces, faces)
           base_name == extract_base_name(filename)
           dest_folder ==
               IF group_by_face
               THEN (IF person_name # NoName THEN date_folder \o <<Sep, person_name>>
                     ELSE date_folder)
               ELSE IF group_by_name
                    THEN (IF base_name # <<>> THEN date_folder \o <<Sep>> \o base_name
                          ELSE date_folder)
                    ELSE date_folder
           unique_filename == get_unique_filename(dest, dest_folder, filename)
       IN /\ dest' = IF ok
                     THEN (<<dest_folder, unique_filename>> :> Stored(files_done + 1, filename))
                              @@ dest
                     ELSE dest
          /\ last' = [name |-> filename, exif |-> exif, mtime |-> mtime, date |-> r.date,
                      source |-> r.source, dirs |-> {dest_folder}, ok |-> ok]
    /\ files_done' = files_done + 1
    /\ UNCHANGED <<PIL_AVAILABLE, group_by_face, group_by_name, known_faces>>
    /\ UNCHANGED <<cfgVars, outsideFiles>>

\* organize_photos_optimized, one image (lines 650-683): a copy under a free
\* name into the folder of every person found; failing holds the people whose
\* copy raises (logged, the loop goes on).
OrganizePhotoCopies(filename, faces, failing) ==
    /\ variant = "gpu"
    /\ known_faces # <<>>
    /\ files_done < MaxFiles
    /\ LET people_in_image ==
               identify_person_in_image_optimized(known_faces, faces, face_tolerance)
           person_folder(person_name) == <<Root, Sep, person_name>>
           dest_name(person_name) ==
               HandleDuplicates(dest, person_folder(person_name), filename, filename, 1)
           copies == [p \in {<<person_folder(n), dest_name(n)>> :
                                n \in people_in_image \ failing}
                          |-> Stored(files_done + 1, filename)]
       IN /\ dest' = copies @@ dest
          /\ last' = [name |-> filename, exif |-> NoFile.exif, mtime |-> NoFile.mtime,
                      date |-> NoDate, source |-> "none",
                      dirs |-> {person_folder(n) : n \in people_in_image},
                      ok |-> (people_in_image \cap failing = {})]
    /\ files_done' = files_done + 1
    /\ UNCHANGED <<PIL_AVAILABLE, group_by_face, group_by_name, known_faces>>
    /\ UNCHANGED <<cfgVars, outsideFiles>>

\* The inputs of the organizer runs: two file names that collide with each
\* other's numbered forms, two date sources, three face lists.
OrgExifCases == {[readable |-> TRUE, tags |-> <<>>],
                 [readable |-> TRUE,
                  tags |-> <<[tag |-> "DateTimeOriginal", kind |-> "date"]>>]}
OrgMTimes == {[ok |-> TRUE, date |-> [year |-> 1999, month |-> 12]]}
OrgFaces == {<<>>, <<0>>, <<0, 3>>}
OrgRegistry == <<[name |-> "ann", encoding |-> 0], [name |-> "bob", encoding |-> 3]>>

\* Files that are in the destination before the run.
EarlierFiles ==
    {<<>>} \cup
    {(<<dir, f>> :> Stored(0, f)) :
        dir \in {create_destination_path(DateInTag("DateTimeOriginal"), Root),
                 <<Root, Sep, "ann">>},
        f \in Filenames}

OrganizeInit ==
    /\ variant \in {"cli", "basic", "gpu"}
    /\ face_tolerance = DefaultTolerance
    /\ ClusterIdle
    /\ known_faces = (IF variant = "cli" THEN <<>> ELSE OrgRegistry)
    /\ image_faces = <<>> /\ people_found = {} /\ copied_to = {} /\ copy_failed = {}
    /\ routed = FALSE
    /\ PIL_AVAILABLE = TRUE
    /\ group_by_face \in (IF variant = "basic" THEN BOOLEAN ELSE {FALSE})
    /\ group_by_name \in (IF variant = "basic" THEN BOOLEAN ELSE {FALSE})
    /\ dest \in EarlierFiles
    /\ files_done = 0
    /\ last = NoFile
    /\ DupIdle
    /\ RunIdle
    /\ CacheIdle
    /\ GpuIdle
    /\ ExtraIdle

OrganizeNext ==
    /\ \/ \E f \in Filenames, e \in OrgExifCases, m \in OrgMTimes, ok \in BOOLEAN :
              OrganizePhoto(f, e, m, ok)
       \/ \E f \in Filenames, e \in OrgExifCases, m \in OrgMTimes, faces \in OrgFaces,
             ok \in BOOLEAN :
              OrganizeFile(f, e, m, faces, ok)
       \/ \E f \in Filenames, faces \in OrgFaces, failing \in SUBSET Names :
              OrganizePhotoCopies(f, faces, failing)
    /\ UNCHANGED runVars

SpecOrganize == OrganizeInit /\ [][OrganizeNext]_vars

\* ------------------------------------------------ file organizer: properties
\* A step overwrites nothing: every file of the destination is still there,
\* unchanged.
NoOverwriteStep ==
    \A p \in DOMAIN dest : p \in DOMAIN dest' /\ dest'[p] = dest[p]

\* Every file a step stores is under its own name if that was free, else under
\* name_N.ext with the smallest N >= 1 that was free.
SmallestFreeNameStep ==
    \A p \in (DOMAIN dest') \ (DOMAIN dest) :
        LET dir == p[1]
            wanted == dest'[p].name
        IN IF ~Exists(dest, dir, wanted) THEN p[2] = wanted
           ELSE \E n \in 1 .. (MaxFiles + 2) :
                    /\ p[2] = WithCounter(wanted, n)
                    /\ ~Exists(dest, dir, p[2])
                    /\ \A m \in 1 .. (n - 1) : Exists(dest, dir, WithCounter(wanted, m))

DirsOf(d) == {p[1] : p \in DOMAIN d}
NamesIn(d, dir) == {p[2] : p \in {q \in DOMAIN d : q[1] = dir}}

\* A directory that holds only files sent there under one and the same name
\* holds them as name.ext, name_1.ext, ..., in that many numbered forms.
SameNameFilesNumbered ==
    \A dir \in DirsOf(dest) : \A f \in Filenames :
        (\A p \in DOMAIN dest : p[1] = dir => dest[p].name = f) =>
            LET n == Cardinality(NamesIn(dest, dir))
            IN NamesIn(dest, dir) = {f} \cup {WithCounter(f, k) : k \in 1 .. (n - 1)}

\* C7: no organize operation overwrites a file of the destination; a file
\* whose name is taken is stored as name_N.ext with the smallest free N >= 1;
\* files of one basename in one folder end up as name.ext, name_1.ext, ...
C7_CollisionSafeRenaming ==
    /\ []SameNameFilesNumbered
    /\ [][NoOverwriteStep /\ SmallestFreeNameStep]_vars

\* Three files named img.jpg sent to one folder: img.jpg, img_1.jpg, img_2.jpg.
C7_Witness ==
    \E dir \in DirsOf(dest) :
        /\ \A p \in DOMAIN dest : p[1] = dir => dest[p].name = <<"img", JpgExt>>
        /\ NamesIn(dest, dir) = {<<"img", JpgExt>>, <<"img", "_", "1", JpgExt>>,
                                 <<"img", "_", "2", JpgExt>>}
        /\ \A p \in DOMAIN dest : p[1] = dir => dest[p].id > 0

\* --------------------------------------------------------- duplicate finder
\* File contents, and the MD5 digest of each: a digest is shorter than a
\* file, so two different contents can have the same digest.
Contents == {"a", "b", "c", "d", "e"}
NoHash == "None"
md5 == [c \in Contents |->
           CASE c = "a" -> "d41d" [] c = "b" -> "9e10" [] c = "c" -> "07b2"
             [] c = "d" -> "c3fc" [] c = "e" -> "d41d"]

\* calculate_file_hash: the digest of the whole file; None when reading raises.
calculate_file_hash(file) ==
    IF file.readable THEN md5[file.content] ELSE NoHash

\* hash_to_files[file_hash].append(filepath) on a dict in insertion order.
HashAppend(d, file_hash, filepath) ==
    IF \E k \in 1 .. Len(d) : d[k].hash = file_hash
    THEN [k \in 1 .. Len(d) |->
             IF d[k].hash = file_hash
             THEN [d[k] EXCEPT !.paths = Append(@, filepath)] ELSE d[k]]
    ELSE Append(d, [hash |-> file_hash, paths |-> <<filepath>>])

\* The loop of find_duplicate_files over the input, from path i on.
RECURSIVE HashToFiles(_, _, _)
HashToFiles(fs, i, hash_to_files) ==
    IF i > Len(fs) THEN hash_to_files
    ELSE LET file_hash == calculate_file_hash(fs[i])
         IN HashToFiles(fs, i + 1,
                IF file_hash # NoHash THEN HashAppend(hash_to_files, file_hash, i)
                ELSE hash_to_files)

HasSeveral(group) == Len(group) > 1
HasAny(group) == Len(group) > 0

\* A filter that keeps every group.
find_duplicate_files_unfiltered(fs) ==
    LET hash_to_files == HashToFiles(fs, 1, <<>>)
    IN SelectSeq([k \in 1 .. Len(hash_to_files) |-> hash_to_files[k].paths], HasAny)

\* find_duplicate_files: the groups of hash_to_files with more than one path.
find_duplicate_files(fs) ==
    LET hash_to_files == HashToFiles(fs, 1, <<>>)
    IN SelectSeq([k \in 1 .. Len(hash_to_files) |-> hash_to_files[k].paths], HasSeveral)

FindDuplicateFiles ==
    /\ ~scanned
    /\ duplicate_groups' = find_duplicate_files(files)
    /\ scanned' = TRUE
    /\ UNCHANGED files
    /\ UNCHANGED <<cfgVars, outsideDup>>

\* A new scan is given a list of files (the files of the source folder).
\* unreadable is the path whose read raises (0: every file can be read).
ScanInput(contents, unreadable) ==
    [k \in 1 .. Len(contents) |-> [content |-> contents[k], readable |-> k # unreadable]]

DupInit ==
    /\ variant = "basic"
    /\ face_tolerance = BasicTolerance
    /\ ClusterIdle
    /\ MatchIdle
    /\ FilesIdle
    /\ files \in {ScanInput(cs, u) : cs \in SeqUpTo(Contents, MaxScanned), u \in 0 .. MaxScanned}
    /\ duplicate_groups = <<>>
    /\ scanned = FALSE
    /\ RunIdle
    /\ CacheIdle
    /\ GpuIdle
    /\ ExtraIdle

DupNext == FindDuplicateFiles

SpecDup == DupInit /\ [][DupNext]_vars

\* ------------------------------------------------ duplicate finder: properties
Paths == 1 .. Len(files)
GroupOf(g) == {duplicate_groups[g][k] : k \in 1 .. Len(duplicate_groups[g])}
GroupsWith(i) == {g \in 1 .. Len(duplicate_groups) : i \in GroupOf(g)}
InSameGroup(i, j) == \E g \in 1 .. Len(duplicate_groups) : i \in GroupOf(g) /\ j \in GroupOf(g)
ByteIdentical(i, j) == files[i].content = files[j].content
SameDigestRead(i, j) ==
    /\ files[i].readable
    /\ files[j].readable
    /\ md5[files[i].content] = md5[files[j].content]

AtMostOneGroup ==
    \A i \in Paths :
        /\ Cardinality(GroupsWith(i)) <= 1
        /\ \A g \in GroupsWith(i) :
               Cardinality({k \in 1 .. Len(duplicate_groups[g]) : duplicate_groups[g][k] = i}) = 1

\* The statement as given: two files share a group exactly when they are
\* byte-identical.
C10_GroupedIffByteIdentical ==
    scanned =>
        /\ \A i, j \in Paths : i # j => (InSameGroup(i, j) <=> ByteIdentical(i, j))
        /\ AtMostOneGroup
        /\ \A i \in Paths :
               (\A j \in Paths \ {i} : ~ByteIdentical(i, j)) => GroupsWith(i) = {}

\* C10: find_duplicate_files returns exactly the groups, of more than one
\* member, of the files that were read and share an MD5 digest: two files are
\* in one group iff both were read and their digests are equal, so files that
\* were read and are byte-identical are always together; every file is in at
\* most one group; a file that was not read, or whose digest no other read
\* file has, is in no group.
C10_DuplicateGrouping ==
    scanned =>
        /\ \A i, j \in Paths : i # j => (InSameGroup(i, j) <=> SameDigestRead(i, j))
        /\ \A i, j \in Paths :
               (i # j /\ files[i].readable /\ files[j].readable /\ ByteIdentical(i, j))
                   => InSameGroup(i, j)
        /\ AtMostOneGroup
        /\ \A g \in 1 .. Len(duplicate_groups) : Cardinality(GroupOf(g)) > 1
        /\ \A i \in Paths :
               (\A j \in Paths \ {i} : ~SameDigestRead(i, j)) => GroupsWith(i) = {}

\* Five files that can all be read, A and C byte-identical, B, D and E unlike
\* each other and unlike A: the one group returned is {A, C}.
C10_Witness ==
    /\ scanned
    /\ Len(files) = 5
    /\ \A i \in Paths : files[i].readable
    /\ ByteIdentical(1, 3)
    /\ \A i, j \in {1, 2, 4, 5} : i # j => md5[files[i].content] # md5[files[j].content]
    /\ duplicate_groups = <<(<<1, 3>>)>>

\* --------------------------------------------------------------- whole runs
SUPPORTED_EXTENSIONS ==
    {".jpg", ".jpeg", ".png", ".heic", ".raw", ".tiff", ".tif", ".bmp", ".gif"}
TxtExt == ".txt"

\* is_image_file, for the lower-case names of the model.
is_image_file(filename) == filename[Len(filename)] \in SUPPORTED_EXTENSIONS

\* What is unchanged by every step of a run.
outsideRun == <<cfgVars, all_faces, unique_faces, used_indices, ci, cpc, invocation,
                first_result, dupVars, src_files, config, cacheVars, gpuVars, extraVars>>
lastImageVars == <<image_faces, people_found, copied_to, copy_failed, routed>>

SrcFile(name, exif, faces) ==
    [name |-> name, exif |-> exif, mtime |-> CHOOSE m \in OrgMTimes : TRUE, faces |-> faces]

\* A validation that lets a source that is not a directory through.
ValidateDirectoriesLax ==
    /\ variant = "cli"
    /\ run_pc = "start"
    /\ IF ~config.source_exists \/ ~config.dest_creatable
       THEN run_pc' = "done" /\ exit_code' = 1
       ELSE run_pc' = "loop" /\ exit_code' = exit_code
    /\ UNCHANGED <<src_present, run_i, stats, shown, summary_fields, failed, logged, placed,
                   cache_saved>>
    /\ UNCHANGED <<outsideRun, stop_processing, matchVars, fileVars>>

\* validate_directories, called by main before organize_photos.
ValidateDirectories ==
    /\ variant = "cli"
    /\ run_pc = "start"
    /\ IF ~config.source_exists \/ ~config.source_is_dir \/ ~config.dest_creatable
       THEN run_pc' = "done" /\ exit_code' = 1
       ELSE run_pc' = "loop" /\ exit_code' = exit_code
    /\ UNCHANGED <<src_present, run_i, stats, shown, summary_fields, failed, logged, placed,
                   cache_saved>>
    /\ UNCHANGED <<outsideRun, stop_processing, matchVars, fileVars>>

\* A loop body that does not count a file on which the move raised.
OrganizePhotosStepUncounted(ok) ==
    /\ variant = "cli"
    /\ run_pc = "loop"
    /\ run_i <= Len(src_files)
    /\ LET f == src_files[run_i]
       IN IF ~is_image_file(f.name)
          THEN /\ ok
               /\ stats' = [stats EXCEPT !.total_scanned = @ + 1, !.total_skipped = @ + 1]
               /\ UNCHANGED <<fileVars, known_faces, src_present, failed, logged, placed>>
          ELSE /\ OrganizePhoto(f.name, f.exif, f.mtime, ok)
               /\ LET r == ResolveDateCli(PIL_AVAILABLE, f.exif, f.mtime)
                  IN stats' = [stats EXCEPT
                         !.total_scanned = @ + 1,
                         !.exif_used = IF r.source = "exif" THEN @ + 1 ELSE @,
                         !.fallback_used = IF r.source = "exif" THEN @ ELSE @ + 1,
                         !.total_moved = IF ok THEN @ + 1 ELSE @]
               /\ src_present' = IF ok THEN src_present \ {run_i} ELSE src_present
               /\ failed' = IF ok THEN failed ELSE failed \cup {run_i}
               /\ logged' = IF ok THEN logged ELSE logged \cup {run_i}
               /\ placed' = [placed EXCEPT ![run_i] = (DOMAIN dest') \ (DOMAIN dest)]
    /\ run_i' = run_i + 1
    /\ UNCHANGED <<run_pc, shown, summary_fields, exit_code, cache_saved>>
    /\ UNCHANGED <<outsideRun, stop_processing, lastImageVars>>

\* organize_photos, one file of the walk (lines 222-260): a file that is not
\* an image is counted and skipped; an image is dated, given a free name and
\* moved; when that raises the error is logged and the file counted as skipped.
OrganizePhotosStep(ok) ==
    /\ variant = "cli"
    /\ run_pc = "loop"
    /\ run_i <= Len(src_files)
    /\ LET f == src_files[run_i]
       IN IF ~is_image_file(f.name)
          THEN /\ ok
               /\ stats' = [stats EXCEPT !.total_scanned = @ + 1, !.total_skipped = @ + 1]
               /\ UNCHANGED <<fileVars, known_faces, src_present, failed, logged, placed>>
          ELSE /\ OrganizePhoto(f.name, f.exif, f.mtime, ok)
               /\ LET r == ResolveDateCli(PIL_AVAILABLE, f.exif, f.mtime)
                  IN stats' = [stats EXCEPT
                         !.total_scanned = @ + 1,
                         !.exif_used = IF r.source = "exif" THEN @ + 1 ELSE @,
                         !.fallback_used = IF r.source = "exif" THEN @ ELSE @ + 1,
                         !.total_moved = IF ok THEN @ + 1 ELSE @,
                         !.total_skipped = IF ok THEN @ ELSE @ + 1]
               /\ src_present' = IF ok THEN src_present \ {run_i} ELSE src_present
               /\ failed' = IF ok THEN failed ELSE failed \cup {run_i}
               /\ logged' = IF ok THEN logged ELSE logged \cup {run_i}
               /\ placed' = [placed EXCEPT ![run_i] = (DOMAIN dest') \ (DOMAIN dest)]
    /\ run_i' = run_i + 1
    /\ UNCHANGED <<run_pc, shown, summary_fields, exit_code, cache_saved>>
    /\ UNCHANGED <<outsideRun, stop_processing, lastImageVars>>

\* main after organize_photos has returned: print_summary, then a normal
\* return (exit code 0).
MainPrintSummary ==
    /\ variant = "cli"
    /\ run_pc = "loop"
    /\ run_i > Len(src_files)
    /\ shown' = "summary"
    /\ summary_fields' = {"total_scanned", "total_moved", "total_skipped", "exif_used",
                          "fallback_used"}
    /\ exit_code' = 0
    /\ run_pc' = "done"
    /\ UNCHANGED <<src_present, run_i, stats, failed, logged, placed, cache_saved>>
    /\ UNCHANGED <<outsideRun, stop_processing, matchVars, fileVars>>

\* main, except KeyboardInterrupt / except Exception: exit code 1, no summary.
MainInterrupted ==
    /\ variant = "cli"
    /\ run_pc = "loop"
    /\ exit_code' = 1
    /\ run_pc' = "done"
    /\ UNCHANGED <<src_present, run_i, stats, shown, summary_fields, failed, logged, placed,
                   cache_saved>>
    /\ UNCHANGED <<outsideRun, stop_processing, matchVars, fileVars>>

\* organize_files, one file (lines 333-378); an exception is logged and the
\* loop goes on.
OrganizeFilesStep(ok) ==
    /\ variant = "basic"
    /\ run_pc = "loop"
    /\ run_i <= Len(src_files)
    /\ LET f == src_files[run_i]
       IN /\ OrganizeFile(f.name, f.exif, f.mtime, f.faces, ok)
          /\ stats' = [stats EXCEPT !.organized_count = IF ok THEN @ + 1 ELSE @]
          /\ failed' = IF ok THEN failed ELSE failed \cup {run_i}
          /\ logged' = IF ok THEN logged ELSE logged \cup {run_i}
          /\ placed' = [placed EXCEPT ![run_i] = (DOMAIN dest') \ (DOMAIN dest)]
    /\ run_i' = run_i + 1
    /\ UNCHANGED <<src_present, run_pc, shown, summary_fields, exit_code, cache_saved>>
    /\ UNCHANGED <<outsideRun, stop_processing, lastImageVars>>

\* organize_files, lines 380-381: the closing message with organized_count.
OrganizeFilesFinish ==
    /\ variant = "basic"
    /\ run_pc = "loop"
    /\ run_i > Len(src_files)
    /\ shown' = "summary"
    /\ summary_fields' = {"organized_count"}
    /\ run_pc' = "done"
    /\ UNCHANGED <<src_present, run_i, stats, exit_code, failed, logged, placed, cache_saved>>
    /\ UNCHANGED <<outsideRun, stop_processing, matchVars, fileVars>>

\* organize_photos_optimized, lines 627-635: without named faces a warning is
\* shown and the function returns; else the images are listed.
OrganizePhotosOptimizedEnter ==
    /\ variant = "gpu"
    /\ run_pc = "start"
    /\ IF known_faces = <<>>
       THEN /\ shown' = "warning"
            /\ run_pc' = "done"
            /\ stats' = stats
       ELSE /\ shown' = shown
            /\ run_pc' = "loop"
            /\ stats' = [stats EXCEPT !.total_images = Len(src_files)]
    /\ UNCHANGED <<src_present, run_i, summary_fields, exit_code, failed, logged, placed,
                   cache_saved>>
    /\ UNCHANGED <<outsideRun, stop_processing, matchVars, fileVars>>

\* A copy loop that removes the source after a copy.
OrganizePhotosOptimizedStepMoving(failing) ==
    /\ variant = "gpu"
    /\ run_pc = "loop"
    /\ run_i <= Len(src_files)
    /\ ~stop_processing
    /\ LET f == src_files[run_i]
           people_in_image ==
               identify_person_in_image_optimized(known_faces, f.faces, face_tolerance)
       IN /\ OrganizePhotoCopies(f.name, f.faces, failing)
          /\ stats' = [stats EXCEPT
                 !.organized_count = IF people_in_image # {} THEN @ + 1 ELSE @,
                 !.per_person = [n \in DOMAIN @ |->
                                    IF n \in people_in_image \ failing THEN @[n] + 1 ELSE @[n]]]
          /\ src_present' = IF people_in_image \ failing # {} THEN src_present \ {run_i}
                            ELSE src_present
          /\ failed' = IF people_in_image \cap failing = {} THEN failed
                       ELSE failed \cup {run_i}
          /\ logged' = IF people_in_image \cap failing = {} THEN logged
                       ELSE logged \cup {run_i}
          /\ placed' = [placed EXCEPT ![run_i] = (DOMAIN dest') \ (DOMAIN dest)]
    /\ run_i' = run_i + 1
    /\ UNCHANGED <<run_pc, shown, summary_fields, exit_code, cache_saved>>
    /\ UNCHANGED <<outsideRun, stop_processing, lastImageVars>>

\* organize_photos_optimized, one image (lines 650-683), entered only while
\* the stop signal is not set.
OrganizePhotosOptimizedStep(failing) ==
    /\ variant = "gpu"
    /\ run_pc = "loop"
    /\ run_i <= Len(src_files)
    /\ ~stop_processing
    /\ LET f == src_files[run_i]
           people_in_image ==
               identify_person_in_image_optimized(known_faces, f.faces, face_tolerance)
       IN /\ OrganizePhotoCopies(f.name, f.faces, failing)
          /\ stats' = [stats EXCEPT
                 !.organized_count = IF people_in_image # {} THEN @ + 1 ELSE @,
                 !.per_person = [n \in DOMAIN @ |->
                                    IF n \in people_in_image \ failing THEN @[n] + 1 ELSE @[n]]]
          /\ src_present' = src_present
          /\ failed' = IF people_in_image \cap failing = {} THEN failed
                       ELSE failed \cup {run_i}
          /\ logged' = IF people_in_image \cap failing = {} THEN logged
                       ELSE logged \cup {run_i}
          /\ placed' = [placed EXCEPT ![run_i] = (DOMAIN dest') \ (DOMAIN dest)]
    /\ run_i' = run_i + 1
    /\ UNCHANGED <<run_pc, shown, summary_fields, exit_code, cache_saved>>
    /\ UNCHANGED <<outsideRun, stop_processing, lastImageVars>>

\* organize_photos_optimized, lines 685-698, after the loop has ended or was
\* left on the stop signal: save_cache, then the result message.
OrganizePhotosOptimizedFinish ==
    /\ variant = "gpu"
    /\ run_pc = "loop"
    /\ run_i > Len(src_files) \/ stop_processing
    /\ cache_saved' = TRUE
    /\ shown' = "summary"
    /\ summary_fields' = {"total_images", "organized_count", "per_person"}
    /\ run_pc' = "done"
    /\ UNCHANGED <<src_present, run_i, stats, exit_code, failed, logged, placed>>
    /\ UNCHANGED <<outsideRun, stop_processing, matchVars, fileVars>>

\* stop_organization, on the GUI thread while the copy thread is running.
StopOrganizationWhileCopying ==
    /\ variant = "gpu"
    /\ run_pc = "loop"
    /\ ~stop_processing
    /\ stop_processing' = TRUE
    /\ UNCHANGED <<src_present, run_pc, run_i, stats, shown, summary_fields, exit_code,
                   failed, logged, placed, cache_saved>>
    /\ UNCHANGED <<outsideRun, matchVars, fileVars>>

\* The source files of a run. The date organizer walks every file of the
\* source; the GUIs are given the image files only, and run only when there
\* is at least one.
RunSources ==
    CASE variant = "cli" ->
             {SrcFile(<<"img", JpgExt>>, e, <<>>) : e \in OrgExifCases}
                 \cup {SrcFile(<<"notes", TxtExt>>, [readable |-> TRUE, tags |-> <<>>], <<>>)}
      [] variant = "basic" ->
             {SrcFile(<<"img", JpgExt>>, e, fs) : e \in OrgExifCases, fs \in {<<>>, <<0>>}}
      [] variant = "gpu" ->
             {SrcFile(<<"img", JpgExt>>, [readable |-> TRUE, tags |-> <<>>], fs) :
                 fs \in OrgFaces}

Configs ==
    {c \in [source_exists : BOOLEAN, source_is_dir : BOOLEAN, dest_creatable : BOOLEAN] :
        c.source_is_dir => c.source_exists}

RunInit ==
    /\ variant \in {"cli", "basic", "gpu"}
    /\ face_tolerance = DefaultTolerance
    /\ ClusterIdle
    /\ known_faces \in (CASE variant = "cli" -> {<<>>}
                          [] variant = "basic" -> {OrgRegistry}
                          [] variant = "gpu" -> {<<>>, OrgRegistry})
    /\ image_faces = <<>> /\ people_found = {} /\ copied_to = {} /\ copy_failed = {}
    /\ routed = FALSE
    /\ PIL_AVAILABLE = TRUE
    /\ group_by_face \in (IF variant = "basic" THEN BOOLEAN ELSE {FALSE})
    /\ group_by_name = FALSE
    /\ dest = <<>>
    /\ files_done = 0
    /\ last = NoFile
    /\ DupIdle
    /\ src_files \in SeqUpTo(RunSources, MaxFiles)
    /\ variant \in {"basic", "gpu"} => src_files # <<>>
    /\ src_present = 1 .. Len(src_files)
    /\ config \in (IF variant = "cli" THEN Configs ELSE {ValidConfig})
    /\ run_pc = (IF variant = "basic" THEN "loop" ELSE "start")
    /\ run_i = 1
    /\ stats = NoStats
    /\ shown = "nothing"
    /\ summary_fields = {}
    /\ exit_code = -1
    /\ failed = {}
    /\ logged = {}
    /\ placed = [i \in 1 .. Len(src_files) |-> {}]
    /\ cache_saved = FALSE
    /\ CacheIdle
    /\ GpuIdle
    /\ ExtraIdle

RunNext ==
    \/ ValidateDirectories
    \/ \E ok \in BOOLEAN : OrganizePhotosStep(ok)
    \/ MainPrintSummary
    \/ MainInterrupted
    \/ \E ok \in BOOLEAN : OrganizeFilesStep(ok)
    \/ OrganizeFilesFinish
    \/ OrganizePhotosOptimizedEnter
    \/ \E failing \in SUBSET Names : OrganizePhotosOptimizedStep(failing)
    \/ OrganizePhotosOptimizedFinish
    \/ StopOrganizationWhileCopying

SpecRun == RunInit /\ [][RunNext]_vars

\* The program steps of a run are taken when they can be; pressing Stop and
\* an interrupt are up to the user.
SpecRunFair ==
    /\ RunInit
    /\ [][RunNext]_vars
    /\ WF_vars(ValidateDirectories)
    /\ WF_vars(\E ok \in BOOLEAN : OrganizePhotosStep(ok))
    /\ WF_vars(MainPrintSummary)
    /\ WF_vars(\E ok \in BOOLEAN : OrganizeFilesStep(ok))
    /\ WF_vars(OrganizeFilesFinish)
    /\ WF_vars(OrganizePhotosOptimizedEnter)
    /\ WF_vars(\E failing \in SUBSET Names : OrganizePhotosOptimizedStep(failing))
    /\ WF_vars(OrganizePhotosOptimizedFinish)

\* ------------------------------------------------------ whole runs: properties
RunFiles == 1 .. Len(src_files)
RunEnded == run_pc = "done"
ConfigValid == config.source_exists /\ config.source_is_dir /\ config.dest_creatable
NotImages == {i \in RunFiles : ~is_image_file(src_files[i].name)}

\* Every failure was logged and the loop went on to the end of the batch.
FailuresLoggedAndSkipped ==
    (RunEnded /\ shown = "summary" /\ ~stop_processing) =>
        /\ logged = failed
        /\ run_i = Len(src_files) + 1
        /\ \A i \in RunFiles \ (failed \cup NotImages) : placed[i] # {} \/ variant = "gpu"

\* The final summary has a count of the files that were not processed.
FailureCountReported ==
    /\ "total_skipped" \in summary_fields
    /\ stats.total_skipped = Cardinality(failed) + Cardinality(NotImages)

\* C11 as stated: when a file of the batch fails, the failure is logged, the
\* rest of the batch is processed, the run completes and its summary reports
\* the number of failures.
C11_FailuresSkippedAndReported ==
    (RunEnded /\ shown = "summary" /\ ~stop_processing /\ failed # {}) =>
        /\ FailuresLoggedAndSkipped
        /\ FailureCountReported

\* C12: the face-organizing variants copy, so every source file is still at
\* its source path; the date organizer moves, so a file that was organized is
\* at its destination path and no longer at its source path (and a file that
\* was not is still at its source path).
C12_CopyVersusMove ==
    /\ variant \in {"basic", "gpu"} => src_present = RunFiles
    /\ \A i \in RunFiles : \A p \in placed[i] :
           p \in DOMAIN dest /\ dest[p].name = src_files[i].name
    /\ variant = "cli" =>
           \A i \in RunFiles : (placed[i] # {}) <=> (i \notin src_present)

\* A finished run of the date organizer that moved one file and failed on
\* another, and a finished GUI run that copied a file.
C12_Witness ==
    /\ RunEnded
    /\ \/ /\ variant = "cli"
          /\ \E i, j \in RunFiles : placed[i] # {} /\ j \in failed /\ j \in src_present
       \/ /\ variant = "gpu"
          /\ \E i \in RunFiles : Cardinality(placed[i]) = 2

\* C19: with a source that is missing or not a directory, or a destination
\* that cannot be created, the date organizer exits with a non-zero code
\* before any file is handled; a run that passes validation and reaches its
\* end exits with code 0, and only such a run does.
C19_ConfigurationErrorsFatal ==
    variant = "cli" =>
        /\ ~ConfigValid =>
               /\ run_pc # "loop"
               /\ RunEnded => exit_code = 1
               /\ dest = <<>> /\ src_present = RunFiles /\ stats = NoStats
        /\ (ConfigValid /\ RunEnded /\ shown = "summary") => exit_code = 0
        /\ exit_code = 0 => (ConfigValid /\ RunEnded)
        /\ ~RunEnded => exit_code = -1

\* The source path is a file, not a directory: exit code 1, nothing moved.
C19_Witness ==
    /\ variant = "cli"
    /\ config.source_exists /\ ~config.source_is_dir
    /\ Len(src_files) > 0
    /\ RunEnded /\ exit_code = 1

\* C20 as stated: every run that has passed validation eventually shows the
\* final summary (an interrupted date-organizer run set aside).
C20_SummaryEventuallyShown ==
    (variant = "gpu" \/ run_pc = "loop") ~> (shown = "summary" \/ exit_code = 1)

\* The files the date organizer has handled so far, and those among them it
\* moved and those it skipped.
ScannedFiles == {i \in RunFiles : i < run_i}
MovedFiles == {i \in ScannedFiles : placed[i] # {} /\ i \notin src_present}
SkippedFiles == {i \in ScannedFiles : ~is_image_file(src_files[i].name) \/ i \in failed}

\* C30: after each file and at the end of organize_photos, total_scanned =
\* total_moved + total_skipped; the three counters count the files handled,
\* the files moved and the files skipped (not an image, or failed), and every
\* handled file is in exactly one of the last two.
C30_ScannedIsMovedPlusSkipped ==
    variant = "cli" =>
        /\ stats.total_scanned = stats.total_moved + stats.total_skipped
        /\ stats.total_scanned = Cardinality(ScannedFiles)
        /\ stats.total_moved = Cardinality(MovedFiles)
        /\ stats.total_skipped = Cardinality(SkippedFiles)
        /\ MovedFiles \cap SkippedFiles = {}
        /\ MovedFiles \cup SkippedFiles = ScannedFiles

\* The summary of a run that moved a file, failed on one and met a file that
\* is not an image.
C30_Witness ==
    /\ variant = "cli"
    /\ shown = "summary"
    /\ stats.total_moved >= 1
    /\ \E i, j \in SkippedFiles : i \in failed /\ ~is_image_file(src_files[j].name)

\* ----------------------------------------------------------- encoding cache
\* The identities (modification time and size) a file can have: q is never
\* modified.
FileIds(path) == IF path = "p" THEN {1, 2} ELSE {1}
EncodingLists == {<<>>, <<1>>}

\* get_cache_key: the path with the file's modification time and size.
get_cache_key(path) == <<path, file_id[path]>>

Without(d, keys) == [k \in (DOMAIN d) \ keys |-> d[k]]

\* "Add to memory cache if space available".
StoreInMemory(mem, cache_key, encodings) ==
    IF Cardinality(DOMAIN mem) < max_memory_items
    THEN (cache_key :> encodings) @@ mem
    ELSE mem

\* set_encodings.
SetEncodings(path, encodings) ==
    LET cache_key == get_cache_key(path)
    IN /\ cache' = (cache_key :> [encodings |-> encodings, timestamp |-> now]) @@ cache
       /\ memory_cache' = StoreInMemory(memory_cache, cache_key, encodings)
       /\ latest' = (cache_key :> [encodings |-> encodings, timestamp |-> now]) @@ latest
       /\ ret' = [op |-> "set", path |-> path, hit |-> FALSE, encodings |-> <<>>]
       /\ UNCHANGED <<file_id, now>>
       /\ UNCHANGED outsideCache

\* get_encodings: the memory cache first, then the disk cache.
GetEncodings(path) ==
    LET cache_key == get_cache_key(path)
    IN /\ IF cache_key \in DOMAIN memory_cache
          THEN /\ ret' = [op |-> "get", path |-> path, hit |-> TRUE,
                          encodings |-> memory_cache[cache_key]]
               /\ memory_cache' = memory_cache
          ELSE IF cache_key \in DOMAIN cache
          THEN /\ ret' = [op |-> "get", path |-> path, hit |-> TRUE,
                          encodings |-> cache[cache_key].encodings]
               /\ memory_cache' =
                      StoreInMemory(memory_cache, cache_key, cache[cache_key].encodings)
          ELSE /\ ret' = [op |-> "get", path |-> path, hit |-> FALSE, encodings |-> <<>>]
               /\ memory_cache' = memory_cache
       /\ UNCHANGED <<cache, file_id, now, latest>>
       /\ UNCHANGED outsideCache

TooOld(d) == {k \in DOMAIN d : (now - d[k].timestamp) * 31 > max_age_days}

\* clear_old_entries: the entries older than max_age_days leave both caches.
ClearOldEntries ==
    /\ cache' = Without(cache, TooOld(cache))
    /\ memory_cache' = Without(memory_cache, TooOld(cache))
    /\ latest' = Without(latest, TooOld(latest))
    /\ ret' = [op |-> "evict", path |-> "", hit |-> FALSE, encodings |-> <<>>]
    /\ UNCHANGED <<file_id, now>>
    /\ UNCHANGED outsideCache

\* clear_cache: both caches are emptied.
ClearCacheEntries ==
    /\ cache' = <<>>
    /\ memory_cache' = <<>>
    /\ latest' = <<>>
    /\ ret' = [op |-> "evict", path |-> "", hit |-> FALSE, encodings |-> <<>>]
    /\ UNCHANGED <<file_id, now>>
    /\ UNCHANGED outsideCache

\* The file is written to: its modification time and size change.
FileModified(path) ==
    /\ \E id \in FileIds(path) \ {file_id[path]} : file_id' = [file_id EXCEPT ![path] = id]
    /\ ret' = NoCall
    /\ UNCHANGED <<cache, memory_cache, now, latest>>
    /\ UNCHANGED outsideCache

\* 31 days pass.
TimePasses ==
    /\ now < MaxTicks
    /\ now' = now + 1
    /\ ret' = NoCall
    /\ UNCHANGED <<cache, memory_cache, file_id, latest>>
    /\ UNCHANGED outsideCache

CacheInit ==
    /\ variant = "gpu"
    /\ face_tolerance = DefaultTolerance
    /\ ClusterIdle
    /\ MatchIdle
    /\ FilesIdle
    /\ DupIdle
    /\ RunIdle
    /\ CacheIdle
    /\ GpuIdle
    /\ ExtraIdle

CacheNext ==
    \/ \E path \in ImagePaths, encodings \in EncodingLists : SetEncodings(path, encodings)
    \/ \E path \in ImagePaths : GetEncodings(path)
    \/ ClearOldEntries
    \/ ClearCacheEntries
    \/ \E path \in ImagePaths : FileModified(path)
    \/ TimePasses

SpecCache == CacheInit /\ [][CacheNext]_vars

\* ------------------------------------------------ encoding cache: properties
\* C13 as stated: a get returns the encodings put last for the file's current
\* identity, and absent when nothing is stored for that identity.
C13_GetReturnsLatestPut ==
    ret.op = "get" =>
        LET cache_key == get_cache_key(ret.path)
        IN IF cache_key \in DOMAIN latest
           THEN ret.hit /\ ret.encodings = latest[cache_key].encodings
           ELSE ~ret.hit

\* After the file has changed, a get finds nothing of what was stored for the
\* identity it had before.
AbsentAfterFileChange ==
    (ret.op = "get" /\ get_cache_key(ret.path) \notin DOMAIN latest) => ~ret.hit

\* ------------------------------------------------- GPU variant: a session
\* What no step of a GPU session changes.
outsideGpu == <<cfgVars, all_faces, unique_faces, used_indices, ci, cpc, invocation,
                first_result, image_faces, people_found, copied_to, copy_failed, routed,
                fileVars, dupVars, runVars, file_id, now, ret, extraVars>>
cacheDicts == <<cache, memory_cache, latest>>

\* The faces in each image of the source folder.
FacesIn(path) == IF path = "p" THEN <<1>> ELSE <<>>

Active(r) == phase[r] \notin {"off", "ended"}
Unfinished(r) == {f \in ImagePaths : tasks[r][f] \in {"queued", "running", "hung"}}
Executing(r) == {f \in ImagePaths : tasks[r][f] \in {"running", "hung"}}

\* start_organization_threaded with valid folders: the stop signal is reset,
\* Start is disabled, Stop enabled, and the worker thread is started.
StartOrganizationThreaded(r) ==
    /\ main_pc = "idle"
    /\ start_enabled
    /\ phase[r] = "off"
    /\ \A o \in Runs : o < r => phase[o] # "off"
    /\ stop_processing' = FALSE
    /\ start_enabled' = FALSE
    /\ stop_enabled' = TRUE
    /\ phase' = [phase EXCEPT ![r] = "listing"]
    /\ UNCHANGED <<tasks, collected, left, unique, oi, outcome, puts, main_pc, cache_file,
                   writing>>
    /\ UNCHANGED <<outsideGpu, cacheDicts, known_faces>>

\* stop_organization: the signal is set, Stop disabled, Start enabled.
StopOrganizationClicked ==
    /\ main_pc = "idle"
    /\ stop_enabled
    /\ stop_processing' = TRUE
    /\ stop_enabled' = FALSE
    /\ start_enabled' = TRUE
    /\ UNCHANGED <<phase, tasks, collected, left, unique, oi, outcome, puts, main_pc,
                   cache_file, writing>>
    /\ UNCHANGED <<outsideGpu, cacheDicts, known_faces>>

\* find_unique_faces_optimized before its one batch: with the signal set no
\* batch is processed and no face is returned; else process_image_batch
\* submits a task per image.
SubmitBatch(r) ==
    /\ phase[r] = "listing"
    /\ IF stop_processing
       THEN /\ phase' = [phase EXCEPT ![r] = "grouped"]
            /\ tasks' = tasks
       ELSE /\ phase' = [phase EXCEPT ![r] = "extract"]
            /\ tasks' = [tasks EXCEPT ![r] = [f \in ImagePaths |-> "queued"]]
    /\ UNCHANGED <<collected, left, unique, oi, outcome, puts, start_enabled, stop_enabled,
                   main_pc, cache_file, writing>>
    /\ UNCHANGED <<outsideGpu, cacheDicts, known_faces, stop_processing>>

\* A pool thread takes the next queued task: the executor runs at most
\* max_workers tasks at a time and looks at nothing else.
TaskStarts(r, f) ==
    /\ phase[r] = "extract"
    /\ tasks[r][f] = "queued"
    /\ Cardinality(Executing(r)) < max_workers
    /\ tasks' = [tasks EXCEPT ![r][f] = "running"]
    /\ UNCHANGED <<phase, collected, left, unique, oi, outcome, puts, start_enabled,
                   stop_enabled, main_pc, cache_file, writing>>
    /\ UNCHANGED <<outsideGpu, cacheDicts, known_faces, stop_processing>>

\* extract_face_encodings_optimized for run r: the cached encodings when
\* there are any, else the encodings found are put into the cache.
ExtractFaceEncodingsOptimized(r, f) ==
    LET cache_key == get_cache_key(f)
        entry == [encodings |-> FacesIn(f), timestamp |-> now]
    IN IF cache_key \in DOMAIN memory_cache \/ cache_key \in DOMAIN cache
       THEN /\ memory_cache' =
                   IF cache_key \in DOMAIN memory_cache THEN memory_cache
                   ELSE StoreInMemory(memory_cache, cache_key, cache[cache_key].encodings)
            /\ UNCHANGED <<cache, latest, puts>>
       ELSE /\ cache' = (cache_key :> entry) @@ cache
            /\ memory_cache' = StoreInMemory(memory_cache, cache_key, FacesIn(f))
            /\ latest' = (cache_key :> entry) @@ latest
            /\ puts' = [puts EXCEPT ![r] = @ \cup {cache_key}]

\* A task of the pool returns.
TaskFinishes(r, f) ==
    /\ phase[r] = "extract"
    /\ tasks[r][f] = "running"
    /\ tasks' = [tasks EXCEPT ![r][f] = "done"]
    /\ ExtractFaceEncodingsOptimized(r, f)
    /\ UNCHANGED <<phase, collected, left, unique, oi, outcome, start_enabled, stop_enabled,
                   main_pc, cache_file, writing>>
    /\ UNCHANGED <<outsideGpu, known_faces, stop_processing>>

\* An extraction that does not return (the library call blocks).
TaskHangs(r, f) ==
    /\ phase[r] = "extract"
    /\ tasks[r][f] = "running"
    /\ tasks' = [tasks EXCEPT ![r][f] = "hung"]
    /\ UNCHANGED <<phase, collected, left, unique, oi, outcome, puts, start_enabled,
                   stop_enabled, main_pc, cache_file, writing>>
    /\ UNCHANGED <<outsideGpu, cacheDicts, known_faces, stop_processing>>

\* process_image_batch, one turn of "for future in as_completed(...)": the
\* next completed future is handed over; on the stop signal the loop is left,
\* else future.result(timeout=30) returns at once and the faces are taken.
CollectCompleted(r, f) ==
    /\ phase[r] = "extract"
    /\ ~left[r]
    /\ tasks[r][f] = "done"
    /\ f \notin collected[r]
    /\ IF stop_processing
       THEN left' = [left EXCEPT ![r] = TRUE] /\ collected' = collected
       ELSE /\ collected' = [collected EXCEPT ![r] = @ \cup {f}]
            /\ left' = [left EXCEPT ![r] = (collected'[r] = ImagePaths)]
    /\ UNCHANGED <<phase, tasks, unique, oi, outcome, puts, start_enabled, stop_enabled,
                   main_pc, cache_file, writing>>
    /\ UNCHANGED <<outsideGpu, cacheDicts, known_faces, stop_processing>>

\* The "with ThreadPoolExecutor" block is left once every submitted task has
\* finished; find_unique_faces_optimized then groups the faces taken over
\* (group_similar_faces_optimized skips every face while the signal is set).
GroupAfterBatch(r) ==
    /\ phase[r] = "extract"
    /\ left[r]
    /\ Unfinished(r) = {}
    /\ unique' = [unique EXCEPT ![r] =
                     (\E f \in collected[r] : FacesIn(f) # <<>>) /\ ~stop_processing]
    /\ phase' = [phase EXCEPT ![r] = "grouped"]
    /\ UNCHANGED <<tasks, collected, left, oi, outcome, puts, start_enabled, stop_enabled,
                   main_pc, cache_file, writing>>
    /\ UNCHANGED <<outsideGpu, cacheDicts, known_faces, stop_processing>>

\* start_organization_worker, lines 963-979: without faces a warning and the
\* end; with the signal set just the end; else the naming is scheduled on the
\* GUI thread. In every case Start is enabled and Stop disabled.
WorkerDecides(r) ==
    /\ phase[r] = "grouped"
    /\ IF ~unique[r]
       THEN /\ outcome' = [outcome EXCEPT ![r] = "warning"]
            /\ phase' = [phase EXCEPT ![r] = "ended"]
       ELSE IF ~stop_processing
       THEN /\ outcome' = outcome
            /\ phase' = [phase EXCEPT ![r] = "scheduled"]
       ELSE /\ outcome' = outcome
            /\ phase' = [phase EXCEPT ![r] = "ended"]
    /\ start_enabled' = TRUE
    /\ stop_enabled' = FALSE
    /\ UNCHANGED <<tasks, collected, left, unique, oi, puts, main_pc, cache_file, writing>>
    /\ UNCHANGED <<outsideGpu, cacheDicts, known_faces, stop_processing>>

\* assign_names_and_organize on the GUI thread: the user names the face or
\* skips it (no dialog once the signal is set); without the signal the copy
\* thread is started. Start is enabled and Stop disabled at the end.
AssignNamesAndOrganize(r, named) ==
    /\ main_pc = "idle"
    /\ phase[r] = "scheduled"
    /\ IF stop_processing
       THEN /\ ~named
            /\ known_faces' = known_faces
            /\ phase' = [phase EXCEPT ![r] = "ended"]
       ELSE /\ known_faces' = IF named THEN DictSet(known_faces, "ann", 1) ELSE known_faces
            /\ phase' = [phase EXCEPT ![r] = "organize"]
    /\ start_enabled' = TRUE
    /\ stop_enabled' = FALSE
    /\ UNCHANGED <<tasks, collected, left, unique, oi, outcome, puts, main_pc, cache_file,
                   writing>>
    /\ UNCHANGED <<outsideGpu, cacheDicts, stop_processing>>

\* organize_photos_optimized in its own thread, lines 627-635.
CopyThreadEnters(r) ==
    /\ phase[r] = "organize"
    /\ oi[r] = 0
    /\ IF known_faces = <<>>
       THEN /\ outcome' = [outcome EXCEPT ![r] = "warning"]
            /\ phase' = [phase EXCEPT ![r] = "ended"]
            /\ oi' = oi
       ELSE /\ outcome' = outcome
            /\ phase' = phase
            /\ oi' = [oi EXCEPT ![r] = 1]
    /\ UNCHANGED <<tasks, collected, left, unique, puts, start_enabled, stop_enabled,
                   main_pc, cache_file, writing>>
    /\ UNCHANGED <<outsideGpu, cacheDicts, known_faces, stop_processing>>

\* The images in the order of find_image_files.
ImageAt(i) == IF i = 1 THEN "p" ELSE "q"

\* organize_photos_optimized, one image of the loop: entered only while the
\* signal is not set; the people are identified in the faces extracted by the
\* copy thread itself.
CopyThreadImage(r) ==
    /\ phase[r] = "organize"
    /\ oi[r] \in 1 .. Cardinality(ImagePaths)
    /\ ~stop_processing
    /\ ExtractFaceEncodingsOptimized(r, ImageAt(oi[r]))
    /\ oi' = [oi EXCEPT ![r] = @ + 1]
    /\ UNCHANGED <<phase, tasks, collected, left, unique, outcome, start_enabled,
                   stop_enabled, main_pc, cache_file, writing>>
    /\ UNCHANGED <<outsideGpu, known_faces, stop_processing>>

\* save_cache, open(self.cache_file, 'wb'): the file is created or emptied.
SaveCacheOpens(r) ==
    /\ phase[r] = "organize"
    /\ oi[r] > Cardinality(ImagePaths) \/ (oi[r] > 0 /\ stop_processing)
    /\ phase' = [phase EXCEPT ![r] = "saving"]
    /\ cache_file' = [exists |-> TRUE, entries |-> <<>>]
    /\ writing' = writing \cup {r}
    /\ UNCHANGED <<tasks, collected, left, unique, oi, outcome, puts, start_enabled,
                   stop_enabled, main_pc>>
    /\ UNCHANGED <<outsideGpu, cacheDicts, known_faces, stop_processing>>

\* save_cache, pickle.dump and close; then the result message. A file removed
\* by clear_cache while it was open stays removed.
SaveCacheCloses(r) ==
    /\ phase[r] = "saving"
    /\ cache_file' = IF cache_file.exists THEN [exists |-> TRUE, entries |-> cache]
                     ELSE cache_file
    /\ writing' = writing \ {r}
    /\ outcome' = [outcome EXCEPT ![r] = "summary"]
    /\ phase' = [phase EXCEPT ![r] = "ended"]
    /\ UNCHANGED <<tasks, collected, left, unique, oi, puts, start_enabled, stop_enabled,
                   main_pc>>
    /\ UNCHANGED <<outsideGpu, cacheDicts, known_faces, stop_processing>>

\* clear_cache on the GUI thread: os.remove when the file exists ...
ClearCacheRemoves ==
    /\ main_pc = "idle"
    /\ cache_file.exists
    /\ main_pc' = "clearing"
    /\ writing' = writing \cup {0}
    /\ UNCHANGED <<phase, tasks, collected, left, unique, oi, outcome, puts, start_enabled,
                   stop_enabled, cache_file>>
    /\ UNCHANGED <<outsideGpu, cacheDicts, known_faces, stop_processing>>

\* ... and then both dicts are emptied.
ClearCacheResets ==
    /\ \/ main_pc = "clearing"
       \/ main_pc = "idle" /\ ~cache_file.exists
    /\ main_pc' = "idle"
    /\ cache_file' = NoCacheFile
    /\ writing' = writing \ {0}
    /\ cache' = <<>>
    /\ memory_cache' = <<>>
    /\ latest' = <<>>
    /\ UNCHANGED <<phase, tasks, collected, left, unique, oi, outcome, puts, start_enabled,
                   stop_enabled>>
    /\ UNCHANGED <<outsideGpu, known_faces, stop_processing>>

GpuInit ==
    /\ variant = "gpu"
    /\ face_tolerance = DefaultTolerance
    /\ ClusterIdle
    /\ MatchIdle
    /\ FilesIdle
    /\ DupIdle
    /\ RunIdle
    /\ CacheIdle
    /\ GpuIdle
    /\ ExtraIdle

GpuNext ==
    \/ \E r \in Runs : StartOrganizationThreaded(r)
    \/ StopOrganizationClicked
    \/ \E r \in Runs : SubmitBatch(r)
    \/ \E r \in Runs, f \in ImagePaths : TaskStarts(r, f)
    \/ \E r \in Runs, f \in ImagePaths : TaskFinishes(r, f)
    \/ \E r \in Runs, f \in ImagePaths : TaskHangs(r, f)
    \/ \E r \in Runs, f \in ImagePaths : CollectCompleted(r, f)
    \/ \E r \in Runs : GroupAfterBatch(r)
    \/ \E r \in Runs : WorkerDecides(r)
    \/ \E r \in Runs, named \in BOOLEAN : AssignNamesAndOrganize(r, named)
    \/ \E r \in Runs : CopyThreadEnters(r)
    \/ \E r \in Runs : CopyThreadImage(r)
    \/ \E r \in Runs : SaveCacheOpens(r)
    \/ \E r \in Runs : SaveCacheCloses(r)
    \/ ClearCacheRemoves
    \/ ClearCacheResets

SpecGpu == GpuInit /\ [][GpuNext]_vars

\* Threads get to run and the user answers the naming dialog; pressing Start,
\* Stop or Clear Cache is up to the user, and an extraction may block.
SpecGpuFair ==
    /\ GpuInit
    /\ [][GpuNext]_vars
    /\ \A r \in Runs :
           /\ WF_vars(SubmitBatch(r))
           /\ \A f \in ImagePaths :
                  /\ WF_vars(TaskStarts(r, f))
                  /\ WF_vars(TaskFinishes(r, f))
                  /\ WF_vars(CollectCompleted(r, f))
           /\ WF_vars(GroupAfterBatch(r))
           /\ WF_vars(WorkerDecides(r))
           /\ WF_vars(\E named \in BOOLEAN : AssignNamesAndOrganize(r, named))
           /\ WF_vars(CopyThreadEnters(r))
           /\ WF_vars(CopyThreadImage(r))
           /\ WF_vars(SaveCacheOpens(r))
           /\ WF_vars(SaveCacheCloses(r))
    /\ WF_vars(ClearCacheResets)

\* ------------------------------------------- GPU variant: session properties
\* C14 as stated: when a run ends, every entry it put into the cache (and
\* that was not cleared since) is in the backing file.
C14_PutsPersistedAtRunEnd ==
    [][\A r \in Runs :
           (phase[r] # "ended" /\ phase'[r] = "ended") =>
               \A k \in puts'[r] \cap DOMAIN cache' :
                   cache_file'.exists /\ k \in DOMAIN cache_file'.entries]_vars

\* C15 as stated: while the stop signal is set no queued extraction is
\* started and no further image is given to the copy loop, and the signal
\* stays set as long as a run is active.
C15_CooperativeCancellation ==
    [][stop_processing =>
           /\ \A r \in Runs, f \in ImagePaths :
                  ~(tasks[r][f] = "queued" /\ tasks'[r][f] = "running")
           /\ \A r \in Runs : oi[r] >= 1 => oi'[r] = oi[r]
           /\ (\E r \in Runs : Active(r) /\ Active(r)') => stop_processing']_vars

\* C16 as stated: a batch always completes, whatever one extraction does.
C16_BatchCompletes ==
    \A r \in Runs : (phase[r] = "extract") ~> (phase[r] # "extract")

\* C17 as stated: the known people are changed only while no extraction
\* task is executing.
C17_NoMutationWhileExtracting ==
    [][known_faces' # known_faces => \A o \in Runs : Executing(o) = {}]_vars

\* Within one run the grouping starts after the run's own tasks have finished.
GroupedAfterOwnTasks ==
    \A r \in Runs : phase[r] \notin {"off", "extract"} => Unfinished(r) = {}

\* C18 as stated: at most one thread at a time writes or removes the cache
\* file.
C18_SingleWriter == Cardinality(writing) <= 1

\* C25 as stated: while a run is active Start is disabled and no second run
\* is active with it.
C25_AtMostOneRun ==
    /\ (\E r \in Runs : Active(r)) => ~start_enabled
    /\ Cardinality({r \in Runs : Active(r)}) <= 1

\* ----------------------------------------------------- source file selection
\* What no step of the selection changes.
outsideSelect == <<cfgVars, clusterVars, matchVars, fileVars, dupVars, runVars, cacheVars,
                   gpuVars, candidate, io, assignments, analysis, manager, extraction>>

\* str.lower() on the characters of the model.
LowerChar(c) ==
    CASE c = "J" -> "j" [] c = "P" -> "p" [] c = "G" -> "g" [] c = "N" -> "n"
      [] OTHER -> c
Lower(chars) == [i \in 1 .. Len(chars) |-> LowerChar(chars[i])]

\* Path(name).suffix: the name from its last dot on, when that dot is neither
\* the first nor the last character; else the empty string.
LastDot(chars) ==
    LET dots == {i \in 1 .. Len(chars) : chars[i] = "."}
    IN IF dots = {} THEN 0 ELSE CHOOSE i \in dots : \A j \in dots : j <= i
Suffix(chars) ==
    LET i == LastDot(chars)
    IN IF i > 1 /\ i < Len(chars) THEN SubSeq(chars, i, Len(chars)) ELSE <<>>

\* The characters of the extensions the variants name.
Chars(ext) ==
    CASE ext = ".jpg" -> <<".", "j", "p", "g">>
      [] ext = ".jpeg" -> <<".", "j", "p", "e", "g">>
      [] ext = ".png" -> <<".", "p", "n", "g">>
      [] ext = ".heic" -> <<".", "h", "e", "i", "c">>
      [] ext = ".raw" -> <<".", "r", "a", "w">>
      [] ext = ".tiff" -> <<".", "t", "i", "f", "f">>
      [] ext = ".tif" -> <<".", "t", "i", "f">>
      [] ext = ".bmp" -> <<".", "b", "m", "p">>
      [] ext = ".gif" -> <<".", "g", "i", "f">>
      [] ext = ".webp" -> <<".", "w", "e", "b", "p">>
      [] ext = ".txt" -> <<".", "t", "x", "t">>
      [] ext = ".doc" -> <<".", "d", "o", "c">>

\* image_extensions of get_image_files and of the GPU variant's __init__.
BasicImageExtensions == {".jpg", ".jpeg", ".png", ".gif", ".bmp", ".tiff", ".tif", ".webp"}
GpuImageExtensions == {".jpg", ".jpeg", ".png", ".bmp", ".tiff", ".webp"}

image_extensions(v) ==
    {Chars(ext) : ext \in (CASE v = "cli" -> SUPPORTED_EXTENSIONS
                             [] v = "basic" -> BasicImageExtensions
                             [] v = "gpu" -> GpuImageExtensions)}

\* find_image_files skips the files of at most this many bytes.
TinyFileSize == 1024

\* A selection that compares the extension as it is spelled.
TreatedAsImageCaseSensitive(v, f) ==
    /\ Suffix(f.name) \in image_extensions(v)
    /\ v = "gpu" => f.size > TinyFileSize

\* The test each variant applies to a file of the source tree: is_image_file
\* (date organizer), get_image_files (basic GUI), find_image_files (GPU).
TreatedAsImage(v, f) ==
    /\ Lower(Suffix(f.name)) \in image_extensions(v)
    /\ v = "gpu" => f.size > TinyFileSize

SelectFile ==
    /\ treated = "unchecked"
    /\ treated' = IF TreatedAsImage(variant, candidate) THEN "image" ELSE "other"
    /\ UNCHANGED outsideSelect

\* The file names of the source tree: a stem, then nothing, a dot, or a dot
\* and an extension in some spelling.
Stems == {<<>>, <<"a">>, <<"a", ".", "j", "p", "g">>}
Spellings ==
    {Chars(ext) : ext \in SUPPORTED_EXTENSIONS \cup BasicImageExtensions \cup {".txt", ".doc"}}
        \cup {<<".", "J", "P", "G">>, <<".", "J", "p", "g">>, <<".", "P", "N", "G">>,
              <<".", "j", "p">>, <<".", "x", "j", "p", "g">>}
FileNames ==
    {stem \o tail : stem \in Stems, tail \in Spellings \cup {<<>>, <<".">>}} \ {<<>>}

SelectInit ==
    /\ variant \in {"cli", "basic", "gpu"}
    /\ face_tolerance = DefaultTolerance
    /\ ClusterIdle
    /\ MatchIdle
    /\ FilesIdle
    /\ DupIdle
    /\ RunIdle
    /\ CacheIdle
    /\ GpuIdle
    /\ candidate \in [name : FileNames, size : {TinyFileSize, TinyFileSize + 1}]
    /\ treated = "unchecked"
    /\ io = NoIo
    /\ assignments = <<>>
    /\ analysis = NoAnalysis
    /\ manager = NoManager
    /\ extraction = NoExtraction

SelectNext == SelectFile

SpecSelect == SelectInit /\ [][SelectNext]_vars

\* The extension of the candidate, case-insensitively, is one of the variant's.
ExtensionListed == Lower(Suffix(candidate.name)) \in image_extensions(variant)

\* C23 as stated: a file is taken as an image if and only if its extension is
\* listed.
C23_ImageIffExtensionListed ==
    treated # "unchecked" => (treated = "image" <=> ExtensionListed)

\* C23, amended: every variant lists .jpg, .jpeg and .png; a file is taken as
\* an image if and only if its extension, in lower case, is listed and, in the
\* GPU variant, the file is larger than 1024 bytes; so a file with another
\* extension (.txt, .doc) is never taken.
C23_SourceFileSelection ==
    /\ \A v \in {"cli", "basic", "gpu"} :
           {Chars(".jpg"), Chars(".jpeg"), Chars(".png")} \subseteq image_extensions(v)
    /\ treated # "unchecked" =>
           /\ treated = "image" <=>
                  (ExtensionListed /\ (variant = "gpu" => candidate.size > TinyFileSize))
           /\ Lower(Suffix(candidate.name)) \in {Chars(".txt"), Chars(".doc")} =>
                  treated = "other"

\* A file spelled .JPG that was taken as an image by the GPU variant.
C23_Witness ==
    /\ variant = "gpu"
    /\ treated = "image"
    /\ Suffix(candidate.name) = <<".", "J", "P", "G">>

\* ------------------------------------------------------------ cache file I/O
\* What no step of the cache's file I/O changes.
outsideIo == <<cfgVars, clusterVars, matchVars, fileVars, dupVars, runVars, file_id, now,
               phase, tasks, collected, left, unique, oi, outcome, puts, start_enabled,
               stop_enabled, main_pc, writing, candidate, treated, assignments,
               analysis, manager, extraction>>

\* A load_cache that lets the error of a file it cannot unpickle through.
LoadCacheRaising ==
    /\ io.pc = "new"
    /\ IF ~cache_file.exists
       THEN /\ io' = [io EXCEPT !.pc = "loaded", !.load = "missing", !.loaded = cache]
            /\ cache' = cache
       ELSE IF io.corrupt
       THEN /\ io' = [io EXCEPT !.pc = "crashed", !.load = "failed"]
            /\ cache' = cache
       ELSE /\ io' = [io EXCEPT !.pc = "loaded", !.load = "ok", !.loaded = cache_file.entries]
            /\ cache' = cache_file.entries
    /\ UNCHANGED <<memory_cache, ret, latest, cache_file>>
    /\ UNCHANGED outsideIo

\* load_cache, called by __init__: without a file the cache stays empty; a
\* file that cannot be unpickled is logged as a warning and the cache is
\* empty; else the cache is what the file holds.
LoadCache ==
    /\ io.pc = "new"
    /\ IF ~cache_file.exists
       THEN /\ io' = [io EXCEPT !.pc = "loaded", !.load = "missing", !.loaded = cache]
            /\ cache' = cache
       ELSE IF io.corrupt
       THEN /\ io' = [io EXCEPT !.pc = "loaded", !.load = "failed", !.loaded = <<>>,
                                !.warned = @ \cup {"load"}]
            /\ cache' = <<>>
       ELSE /\ io' = [io EXCEPT !.pc = "loaded", !.load = "ok", !.loaded = cache_file.entries]
            /\ cache' = cache_file.entries
    /\ UNCHANGED <<memory_cache, ret, latest, cache_file>>
    /\ UNCHANGED outsideIo

\* The run extracts the faces of an image and puts them into the cache.
RunPutsEncodings(path, encodings) ==
    /\ io.pc = "loaded"
    /\ get_cache_key(path) \notin DOMAIN cache
    /\ SetEncodings(path, encodings)

\* save_cache at the end of organize_photos_optimized: open(..., 'wb') raises
\* (the file is as before), or pickle.dump raises (the file is cut short), or
\* the cache is written; an error is logged as a warning.
SaveCache(error) ==
    /\ io.pc = "loaded"
    /\ io' = [io EXCEPT !.pc = "saved",
                        !.save = IF error = "none" THEN "ok" ELSE "failed",
                        !.warned = IF error = "none" THEN @ ELSE @ \cup {"save"},
                        !.corrupt = IF error = "none" THEN FALSE
                                    ELSE IF error = "dump" THEN TRUE ELSE @,
                        !.before_save = cache,
                        !.memory_before_save = memory_cache]
    /\ cache_file' = CASE error = "none" -> [exists |-> TRUE, entries |-> cache]
                       [] error = "dump" -> [exists |-> TRUE, entries |-> <<>>]
                       [] error = "open" -> cache_file
    /\ UNCHANGED <<cache, memory_cache, ret, latest>>
    /\ UNCHANGED outsideIo

\* organize_photos_optimized after save_cache: the result message.
ShowResults ==
    /\ io.pc = "saved"
    /\ io' = [io EXCEPT !.pc = "shown"]
    /\ UNCHANGED <<cache, memory_cache, ret, latest, cache_file>>
    /\ UNCHANGED outsideIo

\* What the cache file of an earlier session holds.
StoredCaches ==
    {<<>>, (<<"p", 1>> :> [encodings |-> <<1>>, timestamp |-> 0]),
     (<<"p", 1>> :> [encodings |-> <<1>>, timestamp |-> 0])
         @@ (<<"q", 1>> :> [encodings |-> <<>>, timestamp |-> 0])}

IoInit ==
    /\ variant = "gpu"
    /\ face_tolerance = DefaultTolerance
    /\ ClusterIdle
    /\ MatchIdle
    /\ FilesIdle
    /\ DupIdle
    /\ RunIdle
    /\ CacheIdle
    /\ phase = [r \in Runs |-> "off"]
    /\ tasks = [r \in Runs |-> [f \in ImagePaths |-> "unsubmitted"]]
    /\ collected = [r \in Runs |-> {}]
    /\ left = [r \in Runs |-> FALSE]
    /\ unique = [r \in Runs |-> FALSE]
    /\ oi = [r \in Runs |-> 0]
    /\ outcome = [r \in Runs |-> "nothing"]
    /\ puts = [r \in Runs |-> {}]
    /\ start_enabled = TRUE
    /\ stop_enabled = FALSE
    /\ main_pc = "idle"
    /\ writing = {}
    /\ cache_file \in {NoCacheFile} \cup {[exists |-> TRUE, entries |-> c] : c \in StoredCaches}
    /\ candidate = NoCandidate
    /\ treated = "unchecked"
    /\ assignments = <<>>
    /\ analysis = NoAnalysis
    /\ manager = NoManager
    /\ extraction = NoExtraction
    /\ \E corrupt \in BOOLEAN :
           /\ corrupt => (cache_file.exists /\ cache_file.entries = <<>>)
           /\ io = [NoIo EXCEPT !.corrupt = corrupt]

IoNext ==
    \/ LoadCache
    \/ \E path \in ImagePaths, encodings \in EncodingLists : RunPutsEncodings(path, encodings)
    \/ \E error \in {"none", "open", "dump"} : SaveCache(error)
    \/ ShowResults

SpecIo == IoInit /\ [][IoNext]_vars

\* C21: load_cache on a missing or unreadable file leaves the cache empty (the
\* unreadable file is logged as a warning) and the run goes on; a save_cache
\* that fails is logged as a warning, leaves cache and memory_cache as they
\* were, and the run goes on to its result message.
C21_CacheIoErrorsRecovered ==
    /\ io.pc # "crashed"
    /\ io.load \in {"missing", "failed"} => io.loaded = <<>>
    /\ io.load = "failed" => "load" \in io.warned
    /\ io.load = "ok" => io.loaded = cache_file.entries \/ io.save # "none"
    /\ io.save = "failed" =>
           /\ "save" \in io.warned
           /\ cache = io.before_save
           /\ memory_cache = io.memory_before_save
    /\ io.save = "ok" => cache_file = [exists |-> TRUE, entries |-> cache]

\* A run that could not load its cache file, put an entry, could not save
\* either, and showed its results.
C21_Witness ==
    /\ io.pc = "shown"
    /\ io.load = "failed"
    /\ io.save = "failed"
    /\ cache # <<>>

\* ------------------------------------------------------------ naming people
\* What no step of the naming changes.
outsideNaming == <<cfgVars, clusterVars, image_faces, people_found, copied_to, copy_failed,
                   routed, fileVars, dupVars, runVars, cacheVars, gpuVars, candidate,
                   treated, io, analysis, manager, extraction>>

\* str.strip() and str.replace(old, "_") on the characters of the model.
RECURSIVE Strip(_)
Strip(chars) ==
    IF chars = <<>> THEN <<>>
    ELSE IF Head(chars) = " " THEN Strip(Tail(chars))
    ELSE IF chars[Len(chars)] = " " THEN Strip(SubSeq(chars, 1, Len(chars) - 1))
    ELSE chars
ReplaceAll(chars, old) == [i \in 1 .. Len(chars) |-> IF chars[i] \in old THEN "_" ELSE chars[i]]

\* The characters get_person_name replaces, among those of the model.
invalid_chars == {"/", ":"}

\* The name under which the text typed by the user is stored (the empty name:
\* the face is skipped): get_person_name of the GPU variant strips it and
\* replaces blanks and invalid characters, save_face_names strips it.
StoredName(v, typed) ==
    IF v = "gpu"
    THEN IF typed = <<>> THEN <<>> ELSE ReplaceAll(ReplaceAll(Strip(typed), {" "}), invalid_chars)
    ELSE Strip(typed)

\* The faces of the naming dialog(s) in order, each with the text typed for
\* it: every face with a name is stored under it.
RECURSIVE StoreNames(_, _, _)
StoreNames(d, v, entries) ==
    IF entries = <<>> THEN d
    ELSE LET name == StoredName(v, Head(entries).typed)
         IN StoreNames(IF name = <<>> THEN d ELSE DictSet(d, name, Head(entries).encoding),
                       v, Tail(entries))

RECURSIVE NamesStored(_, _)
NamesStored(v, entries) ==
    IF entries = <<>> THEN <<>>
    ELSE LET name == StoredName(v, Head(entries).typed)
         IN (IF name = <<>> THEN <<>> ELSE <<[name |-> name, encoding |-> Head(entries).encoding]>>)
                \o NamesStored(v, Tail(entries))

\* assign_names_to_faces (GPU variant) / save_face_names (basic GUI) over the
\* unique faces of one analysis.
AssignNamesToFaces(entries) ==
    /\ Len(assignments) + Len(entries) <= MaxAssignments
    /\ known_faces' = StoreNames(known_faces, variant, entries)
    /\ assignments' = assignments \o NamesStored(variant, entries)
    /\ UNCHANGED outsideNaming

TypedNames ==
    {<<>>, <<" ">>, <<"a">>, <<" ", "a">>, <<"a", " ", "b">>, <<"a", "_", "b">>,
     <<"a", "/", "b">>, <<"b">>}
NamingEncodings == {0, 3}
NamingEntries == [typed : TypedNames, encoding : NamingEncodings]

NamingInit ==
    /\ variant \in {"basic", "gpu"}
    /\ face_tolerance = DefaultTolerance
    /\ ClusterIdle
    /\ MatchIdle
    /\ FilesIdle
    /\ DupIdle
    /\ RunIdle
    /\ CacheIdle
    /\ GpuIdle
    /\ ExtraIdle

NamingNext == \E entries \in SeqUpTo(NamingEntries, 2) : AssignNamesToFaces(entries)

SpecNaming == NamingInit /\ [][NamingNext]_vars

\* The positions of the assignments made under a name.
AssignedAt(name) == {i \in 1 .. Len(assignments) : assignments[i].name = name}

\* C22: the known people hold one embedding per name, the names are those
\* assigned in the session, and the embedding of a name is the one assigned
\* to it last.
C22_NamesUniqueLastWins ==
    /\ \A j, k \in 1 .. Len(known_faces) :
           known_faces[j].name = known_faces[k].name => j = k
    /\ {known_faces[k].name : k \in 1 .. Len(known_faces)}
           = {assignments[i].name : i \in 1 .. Len(assignments)}
    /\ \A k \in 1 .. Len(known_faces) :
           \E i \in AssignedAt(known_faces[k].name) :
               /\ \A j \in AssignedAt(known_faces[k].name) : j <= i
               /\ known_faces[k].encoding = assignments[i].encoding

\* A name that was assigned twice, with two embeddings.
C22_Witness ==
    /\ Len(known_faces) = 2
    /\ \E i, j \in 1 .. Len(assignments) :
           /\ i < j
           /\ assignments[i].name = assignments[j].name
           /\ assignments[i].encoding # assignments[j].encoding

\* --------------------------------------------- basic GUI: analysis of faces
\* What no step of the analysis changes.
outsideAnalysis == <<cfgVars, clusterVars, matchVars, fileVars, dupVars, runVars, cacheVars,
                     gpuVars, candidate, treated, io, assignments, manager, extraction>>

\* What the face_recognition calls give for one image: an exception, or the
\* faces detected, each with its encoding and its location.
DetectedFaces ==
    {<<>>, <<[encoding |-> 0, location |-> "left"]>>,
     <<[encoding |-> 3, location |-> "left"], [encoding |-> 0, location |-> "right"]>>}
ImageOutcomes ==
    {[raises |-> FALSE, faces |-> fs] : fs \in DetectedFaces}
        \cup {[raises |-> TRUE, faces |-> <<>>]}

\* analyze_faces, entry: self.unknown_faces = [].
AnalyzeFacesEnter(image_files) ==
    /\ analysis.pc \in {"idle", "done"}
    /\ analysis.calls < MaxCalls
    /\ analysis' = [pc |-> "loop", image_files |-> image_files, i |-> 1,
                    unknown_faces |-> <<>>, logged |-> {}, calls |-> analysis.calls + 1]
    /\ UNCHANGED outsideAnalysis

\* A loop body that stores every face of the image.
AnalyzeImageEveryFace ==
    /\ analysis.pc = "loop"
    /\ analysis.i <= Len(analysis.image_files)
    /\ LET image == analysis.image_files[analysis.i]
       IN analysis' = [analysis EXCEPT
              !.i = @ + 1,
              !.logged = IF image.raises THEN @ \cup {analysis.i} ELSE @,
              !.unknown_faces =
                  IF image.raises THEN @
                  ELSE @ \o [k \in 1 .. Len(image.faces) |->
                                [filepath |-> analysis.i,
                                 encoding |-> image.faces[k].encoding,
                                 location |-> image.faces[k].location]]]
    /\ UNCHANGED outsideAnalysis

\* analyze_faces, one image: the first face found is stored with the file's
\* path; an exception is logged.
AnalyzeImage ==
    /\ analysis.pc = "loop"
    /\ analysis.i <= Len(analysis.image_files)
    /\ LET image == analysis.image_files[analysis.i]
       IN analysis' = [analysis EXCEPT
              !.i = @ + 1,
              !.logged = IF image.raises THEN @ \cup {analysis.i} ELSE @,
              !.unknown_faces =
                  IF image.raises \/ image.faces = <<>> THEN @
                  ELSE Append(@, [filepath |-> analysis.i,
                                  encoding |-> image.faces[1].encoding,
                                  location |-> image.faces[1].location])]
    /\ UNCHANGED outsideAnalysis

\* analyze_faces, after the loop.
AnalyzeFacesReturn ==
    /\ analysis.pc = "loop"
    /\ analysis.i > Len(analysis.image_files)
    /\ analysis' = [analysis EXCEPT !.pc = "done"]
    /\ UNCHANGED outsideAnalysis

AnalysisInit ==
    /\ variant = "basic"
    /\ face_tolerance = DefaultTolerance
    /\ ClusterIdle
    /\ MatchIdle
    /\ FilesIdle
    /\ DupIdle
    /\ RunIdle
    /\ CacheIdle
    /\ GpuIdle
    /\ ExtraIdle

AnalysisNext ==
    \/ \E image_files \in SeqUpTo(ImageOutcomes, MaxAnalyzed) : AnalyzeFacesEnter(image_files)
    \/ AnalyzeImage
    \/ AnalyzeFacesReturn

SpecAnalysis == AnalysisInit /\ [][AnalysisNext]_vars

\* The images among the first n of the call in which a face was detected.
WithFace(n) ==
    {i \in 1 .. n : ~analysis.image_files[i].raises /\ analysis.image_files[i].faces # <<>>}

outsideManager == <<cfgVars, clusterVars, matchVars, fileVars, files, scanned, runVars,
                    cacheVars, gpuVars, candidate, treated, io, assignments, analysis,
                    extraction>>

\* Listbox.delete(i) and Listbox.insert(i, row), with 1-based positions: an
\* index past the end deletes nothing and inserts at the end.
LbDelete(rows, i) ==
    IF i \in 1 .. Len(rows)
    THEN SubSeq(rows, 1, i - 1) \o SubSeq(rows, i + 1, Len(rows))
    ELSE rows
LbInsert(rows, i, row) ==
    IF i > Len(rows) THEN Append(rows, row)
    ELSE SubSeq(rows, 1, i - 1) \o <<row>> \o SubSeq(rows, i, Len(rows))

\* f"Group {i+1}: {len(group)} files".
GroupRow(i, group) == [number |-> i, count |-> Len(group)]

\* for i in range(group_index, len(self.duplicate_groups)): delete row i and
\* insert its new text.
RECURSIVE Renumber(_, _, _)
Renumber(rows, groups, i) ==
    IF i > Len(groups) THEN rows
    ELSE Renumber(LbInsert(LbDelete(rows, i), i, GroupRow(i, groups[i])), groups, i + 1)

\* The group selected after an action, n rows or groups being left; a group
\* that is selected shows its files with the first one selected.
SelectAfter(m, group_index, n) ==
    LET g == IF group_index <= n THEN group_index ELSE n
    IN [m EXCEPT !.group_sel = g, !.file_sel = IF g > 0 THEN 1 ELSE m.file_sel]

\* A removal that drops a group only when it is empty.
RemoveFromGroupKeepsSingle(groups, rows, g, k) ==
    LET group == LbDelete(groups[g], k)
    IN IF Len(group) < 1
       THEN [groups |-> LbDelete(groups, g),
             rows |-> Renumber(LbDelete(rows, g), LbDelete(groups, g), g)]
       ELSE [groups |-> [groups EXCEPT ![g] = group],
             rows |-> LbInsert(LbDelete(rows, g), g, GroupRow(g, group))]

\* delete_selected / move_selected after the file is gone: the path leaves its
\* group; a group left with one file or none is removed with its row and the
\* rows after it are renumbered, else the group's row is rewritten.
RemoveFromGroup(groups, rows, g, k) ==
    LET group == LbDelete(groups[g], k)
    IN IF Len(group) <= 1
       THEN [groups |-> LbDelete(groups, g),
             rows |-> Renumber(LbDelete(rows, g), LbDelete(groups, g), g)]
       ELSE [groups |-> [groups EXCEPT ![g] = group],
             rows |-> LbInsert(LbDelete(rows, g), g, GroupRow(g, group))]

\* get_selected_file_info finds a group and a file selected.
FileSelected ==
    /\ manager.pc = "open"
    /\ manager.group_sel \in 1 .. Len(duplicate_groups)
    /\ manager.file_sel \in 1 .. Len(duplicate_groups[manager.group_sel])
SelectedPath == duplicate_groups[manager.group_sel][manager.file_sel]

\* keep_selected_delete_others, confirmed: the other files of the group are
\* removed (for those in failing os.remove raises), the group and its row are
\* deleted, the rows after it renumbered.
KeepSelectedDeleteOthers(failing) ==
    /\ FileSelected
    /\ LET g == manager.group_sel
           group == duplicate_groups[g]
           others == {group[k] : k \in (1 .. Len(group)) \ {manager.file_sel}}
           groups == LbDelete(duplicate_groups, g)
           rows == Renumber(LbDelete(manager.rows, g), groups, g)
       IN /\ failing \subseteq others
          /\ duplicate_groups' = groups
          /\ manager' = SelectAfter([manager EXCEPT !.on_disk = @ \ (others \ failing),
                                                    !.rows = rows],
                                    g, Len(rows))
    /\ UNCHANGED outsideManager

\* delete_selected, confirmed (and move_selected into a folder chosen): when
\* os.remove (shutil.move) raises, an error is shown and nothing changes.
DeleteSelected(ok) ==
    /\ FileSelected
    /\ IF ok
       THEN LET after == RemoveFromGroup(duplicate_groups, manager.rows, manager.group_sel,
                                         manager.file_sel)
            IN /\ duplicate_groups' = after.groups
               /\ manager' = SelectAfter([manager EXCEPT !.on_disk = @ \ {SelectedPath},
                                                         !.rows = after.rows],
                                         manager.group_sel, Len(after.groups))
       ELSE UNCHANGED <<duplicate_groups, manager>>
    /\ UNCHANGED outsideManager

\* The path a file has after it was renamed.
Renamed(path) == path + 10

\* rename_selected with a new name: refused when the name is taken; else the
\* file is renamed (unless os.rename raises) and the group holds the new path.
RenameSelected(taken, ok) ==
    /\ FileSelected
    /\ SelectedPath <= MaxManaged
    /\ IF ~taken /\ ok
       THEN /\ duplicate_groups' =
                   [duplicate_groups EXCEPT ![manager.group_sel][manager.file_sel] =
                       Renamed(SelectedPath)]
            /\ manager' = [manager EXCEPT
                   !.on_disk = (@ \ {SelectedPath}) \cup {Renamed(SelectedPath)},
                   !.renamed = @ \cup {Renamed(SelectedPath)},
                   !.file_sel = 1]
       ELSE UNCHANGED <<duplicate_groups, manager>>
    /\ UNCHANGED outsideManager

\* The user clicks a group, or a file of the group shown.
UserSelects(g, k) ==
    /\ manager.pc = "open"
    /\ g \in 1 .. Len(duplicate_groups)
    /\ k \in 1 .. Len(duplicate_groups[g])
    /\ (g = manager.group_sel \/ k = 1)
    /\ manager' = [manager EXCEPT !.group_sel = g, !.file_sel = k]
    /\ UNCHANGED duplicate_groups
    /\ UNCHANGED outsideManager

\* The window is closed and start_organizing goes on: the files to organize
\* are the files found by the scan that still exist.
CloseManager ==
    /\ manager.pc = "open"
    /\ manager' = [manager EXCEPT
           !.pc = "closed",
           !.files_to_organize = SortedSeq({f \in 1 .. Len(files) : f \in manager.on_disk})]
    /\ UNCHANGED duplicate_groups
    /\ UNCHANGED outsideManager

\* start_organizing up to show_duplicate_manager: the image files are scanned
\* and, there being duplicates, the manager shows one row per group with the
\* first group and its first file selected.
ManagerInit ==
    /\ variant = "basic"
    /\ face_tolerance = BasicTolerance
    /\ ClusterIdle
    /\ MatchIdle
    /\ FilesIdle
    /\ files \in {ScanInput(cs, 0) : cs \in SeqUpTo({"a", "b"}, MaxManaged)}
    /\ duplicate_groups = find_duplicate_files(files)
    /\ duplicate_groups # <<>>
    /\ scanned = TRUE
    /\ RunIdle
    /\ CacheIdle
    /\ GpuIdle
    /\ candidate = NoCandidate
    /\ treated = "unchecked"
    /\ io = NoIo
    /\ assignments = <<>>
    /\ analysis = NoAnalysis
    /\ extraction = NoExtraction
    /\ manager = [NoManager EXCEPT
           !.pc = "open",
           !.on_disk = 1 .. Len(files),
           !.rows = [i \in 1 .. Len(duplicate_groups) |-> GroupRow(i, duplicate_groups[i])],
           !.group_sel = 1,
           !.file_sel = 1]

ManagerNext ==
    \/ \E failing \in SUBSET manager.on_disk : KeepSelectedDeleteOthers(failing)
    \/ \E ok \in BOOLEAN : DeleteSelected(ok)
    \/ \E taken, ok \in BOOLEAN : RenameSelected(taken, ok)
    \/ \E g, k \in 1 .. MaxManaged : UserSelects(g, k)
    \/ CloseManager

SpecManager == ManagerInit /\ [][ManagerNext]_vars

\* C28: every group left has at least two files, and groups_listbox has one
\* row per group left, each with the group's number and size.
C28_GroupsKeepTwoFilesAndRows ==
    manager.pc # "none" =>
        /\ \A g \in 1 .. Len(duplicate_groups) : Len(duplicate_groups[g]) >= 2
        /\ Len(manager.rows) = Len(duplicate_groups)
        /\ \A g \in 1 .. Len(duplicate_groups) :
               manager.rows[g] = GroupRow(g, duplicate_groups[g])

\* Two groups, of which the first was removed by deleting one of its two
\* files, and the manager still shows the other.
C28_Witness ==
    /\ manager.pc = "open"
    /\ Len(files) = 4
    /\ Len(duplicate_groups) = 1
    /\ Cardinality(manager.on_disk) = 3
    /\ manager.rows = <<GroupRow(1, duplicate_groups[1])>>
    /\ 1 \notin manager.on_disk

\* C29 as stated: a file renamed in the duplicate manager and still there is
\* among the files given to organize_files.
C29_RenamedFilesOrganized ==
    manager.pc = "closed" =>
        \A path \in manager.renamed \cap manager.on_disk :
            \E k \in 1 .. Len(manager.files_to_organize) : manager.files_to_organize[k] = path

\* ------------------------------------- GPU variant: clustering, then matching
\* assign_names_to_faces over the clusters from position k on: the user gives
\* cluster k the name names[k], or skips it.
RECURSIVE NameFaces(_, _, _)
NameFaces(d, names, k) ==
    IF k > Len(names) THEN d
    ELSE NameFaces(IF names[k] = NoName THEN d
                   ELSE DictSet(d, names[k], all_faces[unique_faces[k].rep]),
                   names, k + 1)

\* The naming dialogs of one run, in which no name is given twice.
AssignNamesOnce(names) ==
    /\ cpc = "done"
    /\ known_faces = <<>>
    /\ Len(names) = Len(unique_faces)
    /\ \A j, k \in 1 .. Len(names) : (j # k /\ names[j] # NoName) => names[j] # names[k]
    /\ known_faces' = NameFaces(known_faces, names, 1)
    /\ UNCHANGED <<image_faces, people_found, copied_to, copy_failed, routed>>
    /\ UNCHANGED <<cfgVars, outsideMatch>>

\* The faces of one image: observations that follow each other in all_faces.
ImagesOf(faces) ==
    {SubSeq(faces, i, j) : i \in 1 .. Len(faces), j \in 1 .. Len(faces)}

AgreeInit ==
    /\ variant = "gpu"
    /\ all_faces \in SeqUpTo(Encodings, MaxFaces)
    /\ face_tolerance \in Tolerances
    /\ stop_processing = FALSE
    /\ unique_faces = <<>>
    /\ used_indices = {}
    /\ ci = 1
    /\ cpc = "idle"
    /\ invocation = 0
    /\ first_result = <<>>
    /\ MatchIdle
    /\ FilesIdle
    /\ DupIdle
    /\ RunIdle
    /\ CacheIdle
    /\ GpuIdle
    /\ ExtraIdle

AgreeNext ==
    \/ (invocation = 0 /\ ClustererEnter)
    \/ GroupSimilarFacesStep
    \/ ClustererReturn
    \/ \E names \in SeqUpTo(Names \cup {NoName}, MaxFaces) : AssignNamesOnce(names)
    \/ \E faces \in ImagesOf(all_faces), failing \in SUBSET Names :
           (cpc = "done" /\ OrganizePhotoOptimized(faces, failing))

SpecAgree == AgreeInit /\ [][AgreeNext]_vars

\* The names given to cluster k: those under which the embedding of its
\* representative is known.
NamesOfCluster(k) ==
    {known_faces[n].name : n \in {m \in 1 .. Len(known_faces) :
        known_faces[m].encoding = all_faces[unique_faces[k].rep]}}

\* C26: a face of a cluster that was named is identified as that name and as
\* no other; an image holding such a face is given to that person's folder,
\* and is copied there unless the copy raised.
C26_ClusterAndMatcherAgree ==
    (cpc = "done" /\ known_faces # <<>>) =>
        \A k \in 1 .. Len(unique_faces) : \A name \in NamesOfCluster(k) :
            \A j \in MembersOf(k) :
                /\ identify_person_in_image_optimized(known_faces, <<all_faces[j]>>,
                                                      face_tolerance) = {name}
                /\ (routed /\ \E f \in 1 .. Len(image_faces) : image_faces[f] = all_faces[j])
                       => /\ name \in people_found
                          /\ name \in copied_to \cup copy_failed
                          /\ name \notin copy_failed => name \in copied_to

\* C26 as stated: an organized image holding a face of a named cluster is in
\* that person's folder, whatever became of the copy.
C26_ImageAlwaysCopied ==
    (cpc = "done" /\ routed) =>
        \A k \in 1 .. Len(unique_faces) : \A name \in NamesOfCluster(k) :
            \A j \in MembersOf(k) :
                (\E f \in 1 .. Len(image_faces) : image_faces[f] = all_faces[j])
                    => name \in copied_to

\* An image with two faces of two named clusters, the second of them not the
\* representative of its cluster, copied into both folders.
C26_Witness ==
    /\ cpc = "done"
    /\ routed
    /\ Len(known_faces) = 2
    /\ Len(image_faces) = 2
    /\ copied_to = Names
    /\ \E k \in 1 .. Len(unique_faces) :
           /\ Len(unique_faces[k].files) = 2
           /\ all_faces[unique_faces[k].rep] # image_faces[2]
           /\ \E j \in MembersOf(k) : all_faces[j] = image_faces[2]

\* ------------------------------------------- GPU variant: extraction of faces
\* What no step of the extraction changes.
outsideExtraction == <<cfgVars, clusterVars, matchVars, fileVars, dupVars, runVars, cacheVars,
                       gpuVars, candidate, treated, io, assignments, analysis, manager>>

\* self.min_face_size, in units of 25 pixels.
min_face_size == 2

\* The box of a cached observation.
NoBoundingBox == <<0, 0, 0, 0>>

\* Boxes (top, right, bottom, left) that face_locations reports in the resized
\* image: squares below and not below min_face_size, at two places.
FaceLocations ==
    {<<0, x + size, size, x>> : x \in {0, 2 * min_face_size},
                                size \in {min_face_size - 1, min_face_size + 1}}

\* The faces of an image: the embedding face_encodings computes for a face and
\* the box face_locations reports for it.
DetectedFace == [encoding : Encodings, location : FaceLocations]

\* 1.0 / self.resize_factor.
Scales == {1, 2}

\* A box in the coordinates of the original image.
ScaleBack(location, scale) == [c \in 1 .. 4 |-> location[c] * scale]

\* The boxes that are not too small, scaled back, in the order of detection.
RECURSIVE filtered_locations(_, _)
filtered_locations(faces, scale) ==
    IF faces = <<>> THEN <<>>
    ELSE LET location == Head(faces).location
             face_width == location[2] - location[4]
             face_height == location[3] - location[1]
             rest == filtered_locations(Tail(faces), scale)
         IN IF face_width >= min_face_size /\ face_height >= min_face_size
            THEN <<ScaleBack(location, scale)>> \o rest
            ELSE rest

\* face_recognition.face_encodings(image, face_locations): one embedding for
\* every face detected.
face_encodings(faces) == [k \in 1 .. Len(faces) |-> faces[k].encoding]

\* zip(face_encodings, filtered_locations) made into FaceData.
ZipFaceData(encodings, locations) ==
    [k \in 1 .. (IF Len(encodings) < Len(locations) THEN Len(encodings) ELSE Len(locations)) |->
        [encoding |-> encodings[k], bounding_box |-> locations[k]]]

\* extract_face_encodings_optimized of the image; failure: the image cannot be
\* loaded, or the detection raises.
ExtractObservations(failure) ==
    LET encodings == face_encodings(extraction.faces)
        locations == filtered_locations(extraction.faces, extraction.scale)
        fresh == ZipFaceData(encodings, locations)
    IN /\ extraction.calls < MaxExtractions
       /\ extraction' =
              IF extraction.in_cache
              THEN [extraction EXCEPT
                       !.result = [k \in 1 .. Len(extraction.cached) |->
                                      [encoding |-> extraction.cached[k],
                                       bounding_box |-> NoBoundingBox]],
                       !.hit = TRUE,
                       !.calls = @ + 1]
              ELSE IF failure
              THEN [extraction EXCEPT !.result = <<>>, !.hit = FALSE, !.calls = @ + 1]
              ELSE IF extraction.faces = <<>> \/ locations = <<>>
              THEN [extraction EXCEPT !.in_cache = TRUE, !.cached = <<>>, !.result = <<>>,
                                      !.populated = <<>>,
                                      !.hit = FALSE, !.calls = @ + 1]
              ELSE [extraction EXCEPT !.in_cache = TRUE, !.cached = encodings, !.result = fresh,
                                      !.populated = fresh, !.hit = FALSE, !.calls = @ + 1]
       /\ UNCHANGED outsideExtraction

\* clear_cache: the entry of the image is gone.
ClearCacheEntry ==
    /\ extraction.in_cache
    /\ extraction' = [extraction EXCEPT !.in_cache = FALSE, !.cached = <<>>]
    /\ UNCHANGED outsideExtraction

ExtractionInit ==
    /\ variant = "gpu"
    /\ face_tolerance = DefaultTolerance
    /\ ClusterIdle
    /\ MatchIdle
    /\ FilesIdle
    /\ DupIdle
    /\ RunIdle
    /\ CacheIdle
    /\ GpuIdle
    /\ candidate = NoCandidate
    /\ treated = "unchecked"
    /\ io = NoIo
    /\ assignments = <<>>
    /\ analysis = NoAnalysis
    /\ manager = NoManager
    /\ \E faces \in SeqUpTo(DetectedFace, MaxImageFaces), scale \in Scales :
           extraction = [NoExtraction EXCEPT !.faces = faces, !.scale = scale]

ExtractionNext ==
    \/ \E failure \in BOOLEAN : ExtractObservations(failure)
    \/ ClearCacheEntry

SpecExtraction == ExtractionInit /\ [][ExtractionNext]_vars

\* The observations a cache hit returns begin with the embeddings of the
\* observations the populating extraction returned.
CachedExtendsFresh ==
    extraction.hit =>
        /\ Len(extraction.populated) <= Len(extraction.result)
        /\ \A k \in 1 .. Len(extraction.populated) :
               extraction.result[k].encoding = extraction.populated[k].encoding

\* The box of a face of the image whose embedding is e, in the coordinates of
\* the original image.
BoxesOf(e) ==
    {ScaleBack(extraction.faces[k].location, extraction.scale) :
        k \in {i \in 1 .. Len(extraction.faces) : extraction.faces[i].encoding = e}}

\* C27: a cache hit returns as many observations, with the same embeddings,
\* as the extraction that populated the entry, and every observation returned
\* holds the box of a face with its embedding.
C27_CachedAndFreshAgree ==
    /\ extraction.hit =>
           /\ Len(extraction.result) = Len(extraction.populated)
           /\ \A k \in 1 .. Len(extraction.result) :
                  extraction.result[k].encoding = extraction.populated[k].encoding
    /\ \A k \in 1 .. Len(extraction.result) :
           extraction.result[k].bounding_box \in BoxesOf(extraction.result[k].encoding)

Init == ClusterInit

Next ==
    \/ ClusterNext \/ MatchNext \/ DateNext \/ OrganizeNext \/ DupNext \/ RunNext
    \/ CacheNext \/ GpuNext \/ SelectNext \/ IoNext \/ NamingNext
    \/ AnalysisNext \/ ManagerNext \/ AgreeNext \/ ExtractionNext

Spec == Init /\ [][Next]_vars

SpecCluster == ClusterInit /\ [][ClusterNext]_vars

====
